---- MODULE Spec2Model ----
(***************************************************************************)
(* The theme REST client of cli-kit (public/node/themes/api.ts): request() *)
(* with its status dispatch and 429 retry, handleForbiddenError, and the   *)
(* API functions built on it (deleteThemeAsset, bulkUploadThemeAssets),    *)
(* plus themeDelete, which goes through the GraphQL admin client.          *)
(*                                                                         *)
(* JavaScript values are tagged records so that values of different        *)
(* JavaScript types stay comparable; strings that the code inspects or     *)
(* builds are sequences of tokens.                                         *)
(***************************************************************************)
EXTENDS Integers, Sequences, FiniteSets, TLC

VARIABLES
  pc,         \* position of the running API call: idle, gate, inflight, sleeping, done
  call,       \* the API function running and the arguments it gave to request()
  sent,       \* the HTTP requests restRequest has issued for this call, in order
  replies,    \* status and retry-after of the responses received for this call, in order
  lastResponse,  \* the last response received for this call
  gateLeft,   \* time left before the pacing gate lets the request through
  sleepLeft,  \* time left of the retry-after sleep
  waited,     \* time passed since the last response was received
  rateLimit,  \* the throttler's process-wide call-budget state
  outcome,    \* how request() ended: pending, returned or raised (with the error)
  result,     \* how the API function ended: pending, value or raised
  syncIn,     \* the remote checksums, the local files and the exclusion flag of a sync pass
  planOut,    \* the sync plan computed from them
  pull,       \* the running pull: its options, its position and what it handed to the download
  initialized,          \* whether the watcher's initial scan has completed
  inMemoryTemplates,    \* the override cache: content per key
  parsedJsonTemplates,  \* the parsed-template index, in insertion order
  watched,    \* the watcher events handled so far, each with the state of its handling
  listeners,  \* the handlers registered on the hot-reload bus, in registration order
  streams,    \* the event stream of each browser tab
  published,  \* the hot-reload events emitted so far, in order
  pages,      \* the page-render request of each html handler
  section,    \* the section re-render request
  dom,        \* the section elements of the page in the browser: node and content shown
  inbox,   \* the hot-reload events the page received, each with its partial fetches
  reloaded,   \* whether the page has asked for a full reload
  sources,    \* the EventSource objects the page has created, each with its state
  timers,     \* the pending reconnect timers of the page: milliseconds left
  handled,    \* how many onmessage handlers ran for the last event pushed to the page
  invocations,  \* the pollAppLogs invocations started so far, each with its position
  scheduled,    \* the timers pollAppLogs has set so far, each with the invocation that set it
  job           \* the createTheme, fetchChecksums or pull call under way: requests and result

restVars == <<pc, call, sent, replies, lastResponse, gateLeft, sleepLeft, waited, rateLimit, outcome, result>>
syncVars == <<syncIn, planOut, pull>>
hotVars == <<initialized, inMemoryTemplates, parsedJsonTemplates, watched, listeners, streams, published>>
previewVars == <<pages, section>>
browserVars == <<dom, inbox, reloaded>>
channelVars == <<sources, timers, handled>>
logsVars == <<invocations, scheduled>>
themeVars == <<job>>
outsideRest == <<syncVars, hotVars, previewVars, browserVars, channelVars, logsVars, themeVars>>
outsideSync == <<restVars, hotVars, previewVars, browserVars, channelVars, logsVars, themeVars>>
outsideHot == <<restVars, syncVars, previewVars, browserVars, channelVars, logsVars, themeVars>>
outsidePreview == <<restVars, syncVars, browserVars, channelVars, logsVars, themeVars>>
outsideBrowser == <<restVars, syncVars, hotVars, previewVars, channelVars, logsVars, themeVars>>
outsideChannel == <<restVars, syncVars, hotVars, previewVars, browserVars, logsVars, themeVars>>
outsideLogs == <<restVars, syncVars, hotVars, previewVars, browserVars, channelVars, themeVars>>
outsideThemes == <<restVars, syncVars, hotVars, previewVars, browserVars, channelVars, logsVars>>
vars == <<restVars, syncVars, hotVars, previewVars, browserVars, channelVars, logsVars, themeVars>>

-----------------------------------------------------------------------------
(* Bounds of the model *)

\* watcher events (add, change, unlink) handled in one run
MaxFileEvents == 2

\* watcher events handled while the preview server answers requests
MaxPreviewFileEvents == 1

\* hot-reload events one page receives
MaxMessages == 2

\* EventSource objects one page creates, the pending ones included
MaxSources == 3

\* pollAppLogs invocations of one polling chain
MaxPolls == 3

\* 429 answers the server gives to one logical call
MaxRetries == 2
\* largest retry-after value (seconds) the server sends
MaxRetryAfter == 2
\* largest number of assets in one bulk upload
MaxAssets == 2

-----------------------------------------------------------------------------
(* JavaScript values *)

JsUndefined == [type |-> "undefined", text |-> <<>>]
JsString(s) == [type |-> "string", text |-> s]
JsNumber == [type |-> "number", text |-> <<>>]

store == "my-shop.myshopify.com"

\* Statuses the server answers with: every case of the dispatch and the edges
\* of its ranges, 600 standing for the non-standard statuses a server can send.
Statuses == {200, 204, 207, 301, 399, 400, 401, 403, 404, 418, 422, 429, 499, 500, 503, 599, 600}

AssetKeys == {"snippets/product-variant-picker.liquid", "templates/404.json"}
ForeignKey == "assets/test.liquid"
NoKey == "(none)"

GeneratedAsset == <<"Cannot", "delete", "generated", "asset">>

\* Values of json.message in a 403 body
ForbiddenMessages ==
  { JsUndefined, JsNumber, JsString(<<>>),
    JsString(GeneratedAsset),
    JsString(GeneratedAsset \o <<"'assets/bla.css'.", "Delete", "'assets/bla.css.liquid'", "instead.">>),
    JsString(<<"Error:">> \o GeneratedAsset),
    JsString(<<"Cannot", "delete", "asset">>),
    JsString(<<"Not", "allowed">>) }

\* Values of json.message in the body of an answer to DELETE
DeleteMessages ==
  { JsUndefined, JsString(<<>>),
    JsString(<<"snippets/product-variant-picker.liquid", "was", "succesfully", "deleted">>) }

-----------------------------------------------------------------------------
(* Requests and responses *)

\* The arguments an API function hands to request(): method, path, body
\* params and query params.
Request(method, path, params, query) ==
  [method |-> method, path |-> path, params |-> params, query |-> query]

NoParams == <<>>
NoQuery == <<>>

\* The first n asset keys, as the assets of a bulk upload.
KeyOrder == <<"snippets/product-variant-picker.liquid", "templates/404.json",
              "layout/theme.liquid", "config/settings_schema.json">>
AssetLists == { SubSeq(KeyOrder, 1, n) : n \in 0..MaxAssets }

NoResults == [present |-> FALSE, list |-> <<>>]
EmptyJson == [message |-> JsUndefined, errors |-> JsUndefined, results |-> NoResults]

NoAsset == [present |-> FALSE, key |-> NoKey]
NoErrors == "(none)"
HashError == "{asset: [expected Hash to be a String]}"

\* One entry of a 207 body about the asset with key k: a success carrying the
\* written asset (which may report k, another key, or none), or a failure
\* carrying the error payload.
ReplyEntries(k) ==
  { [code |-> 200, asset |-> [present |-> TRUE, key |-> k], errors |-> NoErrors],
    [code |-> 200, asset |-> [present |-> TRUE, key |-> ForeignKey], errors |-> NoErrors],
    [code |-> 200, asset |-> [present |-> TRUE, key |-> NoKey], errors |-> NoErrors],
    [code |-> 201, asset |-> [present |-> TRUE, key |-> k], errors |-> NoErrors],
    [code |-> 400, asset |-> NoAsset, errors |-> HashError] }

\* The bodies the server gives a bulk upload: one entry per submitted asset,
\* in request order.
BulkReplies(assets) ==
  { r \in [1..Len(assets) -> UNION { ReplyEntries(assets[i]) : i \in 1..Len(assets) }] :
      \A i \in 1..Len(assets) : r[i] \in ReplyEntries(assets[i]) }

ValidationErrors == { JsUndefined, JsString(<<HashError>>) }

Bodies(op, assets, status) ==
  IF status = 403 THEN { [EmptyJson EXCEPT !.message = m] : m \in ForbiddenMessages }
  ELSE IF status = 422 THEN { [EmptyJson EXCEPT !.errors = e] : e \in ValidationErrors }
  ELSE IF op = "deleteThemeAsset" /\ status \in {200, 204, 404}
    THEN { [EmptyJson EXCEPT !.message = m] : m \in DeleteMessages }
  ELSE IF op = "bulkUploadThemeAssets" /\ status \in {200, 204, 207}
    THEN { [EmptyJson EXCEPT !.results = [present |-> TRUE, list |-> r]] : r \in BulkReplies(assets) }
  ELSE { EmptyJson }

\* The call-budget header "used/capacity" of a response, when it carries one.
NoLimit == [present |-> FALSE, used |-> 0, cap |-> 0]
LimitHeaders == { NoLimit, [present |-> TRUE, used |-> 1, cap |-> 2], [present |-> TRUE, used |-> 2, cap |-> 2] }

\* The retry-after header, which 429 responses carry.
RetryAfters(status) == IF status = 429 THEN 0..MaxRetryAfter ELSE {0}

\* What the server may answer to a request of the API function op; it answers
\* 429 at most MaxRetries times to one logical call.
Responses(op, assets, throttled) ==
  UNION { { [status |-> s, retryAfter |-> ra, limit |-> l, json |-> j] :
              ra \in RetryAfters(s), l \in LimitHeaders, j \in Bodies(op, assets, s) } :
          s \in { x \in Statuses : x = 429 => throttled < MaxRetries } }

NoResponse == [status |-> 0, retryAfter |-> 0, limit |-> NoLimit, json |-> EmptyJson]

-----------------------------------------------------------------------------
(* Errors *)

AbortError(message, tryMessage) ==
  [class |-> "AbortError", message |-> message, tryMessage |-> tryMessage]

Error(message) == [class |-> "Error", message |-> message, tryMessage |-> <<>>]

NoError == [class |-> "(none)", message |-> <<>>, tryMessage |-> <<>>]

\* storeAdminUrl(session)
storeAdminUrl(fqdn) == "https://" \o fqdn \o "/admin"

\* error.match(/Cannot delete generated asset/) !== null: the pattern occurs
\* somewhere in the text.
MatchesGeneratedAsset(text) ==
  \E i \in 1..Len(text) :
    /\ i + Len(GeneratedAsset) - 1 <= Len(text)
    /\ SubSeq(text, i, i + Len(GeneratedAsset) - 1) = GeneratedAsset

\* errorMessage(response): json.message when it is a string, '' otherwise.
errorMessage(response) ==
  LET message == response.json.message
  IN IF message.type = "string" THEN message.text ELSE <<>>

\* errors(response): JSON.stringify(response.json?.errors)
errors(response) ==
  IF response.json.errors.type = "undefined" THEN <<"undefined">> ELSE response.json.errors.text

NotAuthorizedGuidance(adminUrl) ==
  << "You can't use Shopify CLI with development stores if you only have Partner staff member access.",
     "If you're the store owner, then you need to log in to the store directly using the store URL at least once (for example, using",
     adminUrl,
     ") before you log in using Shopify CLI." >>

\* The same function throwing the not-authorized error for every 403.
handleForbiddenErrorAlwaysGeneric(response, fqdn) ==
  AbortError(<<"You are not authorized to edit themes on", fqdn>>,
             NotAuthorizedGuidance(storeAdminUrl(fqdn)))

\* handleForbiddenError(response, session): the error it throws.
handleForbiddenError(response, fqdn) ==
  LET adminUrl == storeAdminUrl(fqdn)
      error == errorMessage(response)
  IN IF MatchesGeneratedAsset(error)
       THEN AbortError(error, <<>>)
       ELSE AbortError(<<"You are not authorized to edit themes on", fqdn>>,
                       NotAuthorizedGuidance(adminUrl))

-----------------------------------------------------------------------------
(* request(): the status dispatch *)

\* The switch with the generic 4xx case tested before the specific ones.
DispatchGenericFirst(status) ==
  IF status >= 200 /\ status <= 399 THEN "success"
  ELSE IF status >= 400 /\ status <= 499 THEN "clientError"
  ELSE IF status = 404 THEN "notFound"
  ELSE IF status = 429 THEN "retry"
  ELSE IF status = 403 THEN "forbidden"
  ELSE IF status = 401 THEN "unauthorized"
  ELSE IF status = 422 THEN "unprocessable"
  ELSE IF status >= 500 /\ status <= 599 THEN "serverError"
  ELSE "unexpected"

\* The switch retrying on a server error as it does on a 429.
DispatchRetryServerError(status) ==
  IF status >= 200 /\ status <= 399 THEN "success"
  ELSE IF status = 404 THEN "notFound"
  ELSE IF status = 429 THEN "retry"
  ELSE IF status = 403 THEN "forbidden"
  ELSE IF status = 401 THEN "unauthorized"
  ELSE IF status = 422 THEN "unprocessable"
  ELSE IF status >= 400 /\ status <= 499 THEN "clientError"
  ELSE IF status >= 500 /\ status <= 599 THEN "retry"
  ELSE "unexpected"

\* The switch without the 429 case.
DispatchNoRetry(status) ==
  IF status >= 200 /\ status <= 399 THEN "success"
  ELSE IF status = 404 THEN "notFound"
  ELSE IF status = 403 THEN "forbidden"
  ELSE IF status = 401 THEN "unauthorized"
  ELSE IF status = 422 THEN "unprocessable"
  ELSE IF status >= 400 /\ status <= 499 THEN "clientError"
  ELSE IF status >= 500 /\ status <= 599 THEN "serverError"
  ELSE "unexpected"

\* switch (true) of request(): the first case, in source order, that the
\* status satisfies.
Dispatch(status) ==
  IF status >= 200 /\ status <= 399 THEN "success"
  ELSE IF status = 404 THEN "notFound"
  ELSE IF status = 429 THEN "retry"
  ELSE IF status = 403 THEN "forbidden"
  ELSE IF status = 401 THEN "unauthorized"
  ELSE IF status = 422 THEN "unprocessable"
  ELSE IF status >= 400 /\ status <= 499 THEN "clientError"
  ELSE IF status >= 500 /\ status <= 599 THEN "serverError"
  ELSE "unexpected"

StatusTag(status) == <<"[", ToString(status), "]">>

Returned(case) == [kind |-> "returned", case |-> case, error |-> NoError]
Raised(case, error) == [kind |-> "raised", case |-> case, error |-> error]
Retry == [kind |-> "retry", case |-> "retry", error |-> NoError]
Pending == [kind |-> "pending", case |-> "(none)", error |-> NoError]

\* What request() does with a response: the body of each case of the switch.
requestOutcome(response, fqdn) ==
  LET status == response.status
      case == Dispatch(status)
  IN IF case = "success" THEN Returned(case)
     ELSE IF case = "notFound" THEN Returned(case)
     ELSE IF case = "retry" THEN Retry
     ELSE IF case = "forbidden" THEN Raised(case, handleForbiddenError(response, fqdn))
     ELSE IF case = "unauthorized"
       THEN Raised(case, AbortError(StatusTag(status) \o <<"API request unauthorized error">>, <<>>))
     ELSE IF case = "unprocessable"
       THEN Raised(case, AbortError(StatusTag(status) \o <<"API request unprocessable content:">>
                                      \o errors(response), <<>>))
     ELSE IF case = "clientError"
       THEN Raised(case, AbortError(StatusTag(status) \o <<"API request client error">>, <<>>))
     ELSE IF case = "serverError"
       THEN Raised(case, AbortError(StatusTag(status) \o <<"API request server error">>, <<>>))
     ELSE Raised(case, AbortError(StatusTag(status) \o <<"API request unexpected error">>, <<>>))

\* The retry re-invoking request() without the query params.
RetryRequestDropQuery(req) == [req EXCEPT !.query = NoQuery]

\* () => request(method, path, session, params, searchParams): the arguments
\* of the re-invocation that delayAwareRetry runs.
RetryRequest(req) == Request(req.method, req.path, req.params, req.query)

-----------------------------------------------------------------------------
(* The REST throttler (rest-api-throttler) *)

UnknownLimit == [used |-> 0, cap |-> 0]

\* throttle(): the delay before a request passes the pacing gate; none while
\* the budget is unknown or far from exhausted, capacity / remaining when it
\* is near exhaustion.
ThrottleDelay(limit) ==
  LET remaining == limit.cap - limit.used
  IN IF limit.cap = 0 THEN 0
     ELSE IF remaining <= 0 THEN limit.cap
     ELSE IF remaining + remaining <= limit.cap THEN limit.cap \div remaining
     ELSE 0

\* The call budget left alone by a 429 response.
updateApiCallLimitUnless429(limit, response) ==
  IF response.limit.present /\ response.status # 429
    THEN [used |-> response.limit.used, cap |-> response.limit.cap]
    ELSE limit

\* updateApiCallLimitFromResponse(response): the state after a response.
updateApiCallLimitFromResponse(limit, response) ==
  IF response.limit.present
    THEN [used |-> response.limit.used, cap |-> response.limit.cap]
    ELSE limit

\* delayAwareRetry(response, operation): the time slept before operation runs.
RetryDelay(response) == response.retryAfter

-----------------------------------------------------------------------------
(* The API functions built on request() *)

NoValue == [kind |-> "pending", bool |-> FALSE, list |-> <<>>, error |-> NoError]
BoolValue(b) == [kind |-> "value", bool |-> b, list |-> <<>>, error |-> NoError]
ListValue(l) == [kind |-> "value", bool |-> FALSE, list |-> l, error |-> NoError]
Throws(e) == [kind |-> "raised", bool |-> FALSE, list |-> <<>>, error |-> e]

\* Boolean(v) of a JavaScript value that is undefined, a string or a
\* non-zero number.
Boolean(v) ==
  IF v.type = "undefined" THEN FALSE
  ELSE IF v.type = "string" THEN v.text # <<>>
  ELSE TRUE

\* deleteThemeAsset after request() returned response.
deleteThemeAsset(response) == BoolValue(Boolean(response.json.message))

KeysOf(assets) == { assets[i] : i \in 1..Len(assets) }

Success(code) == code >= 200 /\ code <= 299

\* The same result counting only code 200 as a success.
BulkResultOnly200(entry, i, assets) ==
  [ key |-> IF entry.asset.present /\ entry.asset.key \in KeysOf(assets) THEN entry.asset.key
            ELSE IF i <= Len(assets) THEN assets[i]
            ELSE "",
    success |-> entry.code = 200,
    errors |-> IF entry.errors = NoErrors THEN "{}" ELSE entry.errors,
    operation |-> "UPLOAD",
    asset |-> entry.asset ]

\* The same result keyed by whatever key the reply reports.
BulkResultReportedKey(entry, i, assets) ==
  [ key |-> IF entry.asset.present /\ entry.asset.key # NoKey THEN entry.asset.key
            ELSE IF i <= Len(assets) THEN assets[i]
            ELSE "",
    success |-> Success(entry.code),
    errors |-> IF entry.errors = NoErrors THEN "{}" ELSE entry.errors,
    operation |-> "UPLOAD",
    asset |-> entry.asset ]

\* The result built for reply entry i: keyed by the key the reply reports when
\* that is the key of a submitted asset, by position otherwise.
BulkResult(entry, i, assets) ==
  [ key |-> IF entry.asset.present /\ entry.asset.key \in KeysOf(assets) THEN entry.asset.key
            ELSE IF i <= Len(assets) THEN assets[i]
            ELSE "",
    success |-> Success(entry.code),
    errors |-> IF entry.errors = NoErrors THEN "{}" ELSE entry.errors,
    operation |-> "UPLOAD",
    asset |-> entry.asset ]

\* buildBulkUploadResults(results, assets) of themes/factories.
buildBulkUploadResults(results, assets) ==
  IF ~results.present THEN <<>>
  ELSE [ i \in 1..Len(results.list) |-> BulkResult(results.list[i], i, assets) ]

\* The same function accepting every 2xx status.
bulkUploadThemeAssetsAny2xx(response, assets) ==
  IF ~(response.status >= 200 /\ response.status <= 299)
    THEN Throws(AbortError(<<"Upload failed, could not reach the server">>, <<>>))
    ELSE ListValue(buildBulkUploadResults(response.json.results, assets))

\* bulkUploadThemeAssets after request() returned response.
bulkUploadThemeAssets(response, assets) ==
  IF response.status # 207
    THEN Throws(AbortError(<<"Upload failed, could not reach the server">>, <<>>))
    ELSE ListValue(buildBulkUploadResults(response.json.results, assets))

\* How the API function ends once request() has ended with outcome o.
ApiResult(c, response, o) ==
  IF o.kind = "raised" THEN Throws(o.error)
  ELSE IF c.op = "deleteThemeAsset" THEN deleteThemeAsset(response)
  ELSE bulkUploadThemeAssets(response, c.assets)

-----------------------------------------------------------------------------
(* themeDelete, through the GraphQL admin client *)

NoThemeId == "null"
UserErrorLists ==
  { <<>>, <<"Could not delete theme">>, <<"Could not delete theme", "Theme is locked">> }

\* What adminRequestDoc(ThemeDelete, ...) resolves to: the themeDelete payload
\* (or none), its deletedThemeId (or null) and its userErrors.
ThemeDeleteReplies ==
  { [present |-> p, deletedThemeId |-> t, userErrors |-> u] :
      p \in BOOLEAN, t \in {NoThemeId, "gid://shopify/OnlineStoreTheme/1"}, u \in UserErrorLists }

\* messages.join(', ')
RECURSIVE Join(_)
Join(messages) ==
  IF messages = <<>> THEN <<>>
  ELSE IF Len(messages) = 1 THEN messages
  ELSE <<Head(messages), ", ">> \o Join(Tail(messages))

\* themeDelete(id, session) once the mutation has answered with reply.
themeDelete(reply) ==
  LET themeId == IF reply.present THEN reply.deletedThemeId ELSE NoThemeId
  IN IF themeId = NoThemeId
       THEN LET userErrors == IF reply.present THEN Join(reply.userErrors) ELSE <<>>
            IN Throws(Error(userErrors))
       ELSE BoolValue(TRUE)

-----------------------------------------------------------------------------
(* The checksum diff engine and the generated-asset filter *)

Absent == "(absent)"
Null == "null"

\* The keys of a sync pass. assets/base.css is what the server generates from
\* assets/base.css.liquid; it is never a local file.
BaseCss == "assets/base.css"
BaseCssLiquid == "assets/base.css.liquid"
ThemeCss == "assets/theme.css"
Template404 == "templates/404.json"
SyncKeys == {BaseCss, BaseCssLiquid, ThemeCss, Template404}

\* A checksum list as a function from key to checksum (null included), Absent
\* for the keys it does not list.
RemoteLists ==
  { [k \in SyncKeys |-> IF k = BaseCss THEN g ELSE IF k = BaseCssLiquid THEN l
                        ELSE IF k = ThemeCss THEN t ELSE j] :
      g \in {Absent, Null, "A"}, l \in {Absent, "A"},
      t \in {Absent, Null, "A", "B"}, j \in {Absent, Null, "A", "B"} }

LocalLists ==
  { [k \in SyncKeys |-> IF k = BaseCss THEN Absent ELSE IF k = BaseCssLiquid THEN l
                        ELSE IF k = ThemeCss THEN t ELSE j] :
      l \in {Absent, "A"}, t \in {Absent, Null, "A"}, j \in {Absent, "A", "B"} }

NoList == [k \in SyncKeys |-> Absent]
KeysIn(list) == { k \in SyncKeys : list[k] # Absent }

\* A listed key is a generated static asset when the list also has the
\* .liquid file it is generated from.
IsGenerated(k, list) ==
  /\ list[k] # Absent
  /\ \E source \in KeysIn(list) : source = k \o ".liquid"

\* The filter keeping every listed key.
rejectNothing(list) == list

\* rejectGeneratedStaticAssets(checksums) of asset-checksum.
rejectGeneratedStaticAssets(list) ==
  [k \in SyncKeys |-> IF IsGenerated(k, list) THEN Absent ELSE list[k]]

\* toUpload where a null checksum is compared like any other value.
toUploadComparingNull(remote, local) ==
  { k \in KeysIn(remote) \cup KeysIn(local) :
      \/ remote[k] = Absent
      \/ local[k] # Absent /\ remote[k] # local[k]
      \/ local[k] = Absent /\ remote[k] = Null }

\* toUpload: absent remotely, differing checksums, or a null remote checksum.
toUpload(remote, local) ==
  { k \in KeysIn(remote) \cup KeysIn(local) :
      \/ remote[k] = Null
      \/ remote[k] = Absent
      \/ local[k] # Absent /\ remote[k] # local[k] }

\* toDelete taking every remote key that is absent locally.
toDeleteEveryRemoteOnly(remote, local) ==
  { k \in KeysIn(remote) : local[k] = Absent }

\* toDelete: listed remotely with a checksum, absent locally.
toDelete(remote, local) ==
  { k \in KeysIn(remote) : local[k] = Absent /\ remote[k] # Null }

\* unchanged comparing a null checksum like any other value.
unchangedComparingNull(remote, local) ==
  { k \in KeysIn(remote) \cap KeysIn(local) : remote[k] = local[k] }

\* unchanged: present on both sides with the same, non-null checksum.
unchanged(remote, local) ==
  { k \in KeysIn(remote) \cap KeysIn(local) : remote[k] # Null /\ remote[k] = local[k] }

\* plan(remoteChecksums, localFiles, excludeGenerated)
plan(remote, local, excludeGenerated) ==
  LET considered == IF excludeGenerated THEN rejectGeneratedStaticAssets(remote) ELSE remote
  IN [ made |-> TRUE,
       toUpload |-> toUpload(considered, local),
       toDelete |-> toDelete(considered, local),
       unchanged |-> unchanged(considered, local) ]

NoPlan == [made |-> FALSE, toUpload |-> {}, toDelete |-> {}, unchanged |-> {}]
NoSync == [remote |-> NoList, local |-> NoList, excludeGenerated |-> FALSE]

-----------------------------------------------------------------------------
(* pull: executePull *)

\* What pull finds at its path: nothing, a directory that has the required
\* theme directories, or some other non-empty directory.
Directories == {"empty", "theme", "other"}

isEmptyDir(dir) == dir = "empty"
hasRequiredThemeDirectories(dir) == dir = "theme"

\* The guard never asking.
NeedsConfirmationNever(dir) == FALSE

\* The first two conjuncts of the guard of executePull: whether
\* currentDirectoryConfirmed(force) is evaluated at all.
NeedsConfirmation(dir) == ~isEmptyDir(dir) /\ ~hasRequiredThemeDirectories(dir)

NoPull == [pc |-> "idle", dir |-> "empty", force |-> FALSE, asked |-> FALSE,
           confirmed |-> FALSE, handed |-> NoList]

-----------------------------------------------------------------------------
(* Hot reload: the override cache, the parsed-template index and the bus *)

\* The browser tabs that may subscribe.
Clients == {"tab1", "tab2"}

\* A theme file key <dir>/<name><ext>, kept in its parts.
Key(dir, name, ext) == [dir |-> dir, name |-> name, ext |-> ext]
HeaderLiquid == Key("sections", "header", ".liquid")
GroupJson == Key("sections", "group", ".json")
IndexJson == Key("templates", "index", ".json")
ThemeCssFile == Key("assets", "theme", ".css")
WatchedKeys == {HeaderLiquid, GroupJson, IndexJson, ThemeCssFile}

extname(key) == key.ext

\* File contents. HeroAndMain, MainOnly and TopOnly are JSON texts with a
\* sections object; Unparsable is not valid JSON.
HeroAndMain == "{sections: {hero: {type: header}, main: {type: product}}}"
MainOnly == "{sections: {main: {type: product}}}"
TopOnly == "{sections: {top: {type: header}}}"
Unparsable == "{sections: "
HeaderMarkup == "<header>"
NoContent == "(none)"
\* A file saved with nothing in it.
EmptyMarkup == ""

ContentsOf(key) ==
  IF key = HeaderLiquid THEN {HeaderMarkup}
  ELSE IF key = GroupJson THEN {TopOnly}
  ELSE IF key = IndexJson THEN {HeroAndMain, MainOnly, Unparsable}
  ELSE {NoContent}

Section(name, type) == [name |-> name, type |-> type]

\* JSON.parse: whether it returns, and the value it returns.
Parses(content) == content \in {HeroAndMain, MainOnly, TopOnly}
JSONparse(content) ==
  IF content = HeroAndMain
    THEN [sections |-> <<Section("hero", "header"), Section("main", "product")>>]
  ELSE IF content = MainOnly THEN [sections |-> <<Section("main", "product")>>]
  ELSE [sections |-> <<Section("top", "header")>>]

NoTemplates == [k \in WatchedKeys |-> NoContent]

\* obj[key] = value always adding a new entry.
SetEntryAppend(index, key, value) == Append(index, [key |-> key, value |-> value])

\* obj[key] = value on an object that keeps insertion order.
SetEntry(index, key, value) ==
  IF \E i \in 1..Len(index) : index[i].key = key
    THEN [i \in 1..Len(index) |-> IF index[i].key = key THEN [key |-> key, value |-> value] ELSE index[i]]
    ELSE Append(index, [key |-> key, value |-> value])

\* delete obj[key]
DeleteEntry(index, key) == SelectSeq(index, LAMBDA e : e.key # key)

\* setInMemoryTemplate leaving the cache entry as it was.
setInMemoryTemplateSkipCache(cache, index, key, content) ==
  [ cache |-> cache,
    index |-> IF key.ext = ".json" /\ Parses(content)
              THEN SetEntry(index, key, JSONparse(content)) ELSE index,
    threw |-> key.ext = ".json" /\ ~Parses(content) ]

\* setInMemoryTemplate(key, content); threw when JSON.parse throws.
setInMemoryTemplate(cache, index, key, content) ==
  [ cache |-> [cache EXCEPT ![key] = content],
    index |-> IF key.ext = ".json" /\ Parses(content)
              THEN SetEntry(index, key, JSONparse(content)) ELSE index,
    threw |-> key.ext = ".json" /\ ~Parses(content) ]

\* deleteInMemoryTemplate(key)
deleteInMemoryTemplate(cache, index, key) ==
  [ cache |-> [cache EXCEPT ![key] = NoContent],
    index |-> DeleteEntry(index, key) ]

NoNames == <<>>
OtherEvent(key) == [type |-> "other", key |-> key, names |-> NoNames]
SectionEvent(key, names) == [type |-> "section", key |-> key, names |-> names]

\* The names of all the entries of one template's sections.
NamesOfAnyType(sections, sectionId) == [i \in 1..Len(sections) |-> sections[i].name]

\* The names of the entries of one template's sections whose type is sectionId.
NamesOfType(sections, sectionId) ==
  LET matching == SelectSeq(sections, LAMBDA e : e.type = sectionId)
  IN [i \in 1..Len(matching) |-> matching[i].name]

\* sectionsToUpdate: the loop over Object.values(parsedJsonTemplates).
RECURSIVE sectionsToUpdate(_, _)
sectionsToUpdate(index, sectionId) ==
  IF index = <<>> THEN <<>>
  ELSE NamesOfType(Head(index).value.sections, sectionId) \o sectionsToUpdate(Tail(index), sectionId)

\* hotReloadSections(key): the events it emits.
hotReloadSections(key, index) ==
  IF key.dir = "sections" /\ key.ext = ".liquid"
    THEN <<SectionEvent(key, sectionsToUpdate(index, key.name))>>
    ELSE <<>>

\* triggerHotReload(key): the events it emits.
triggerHotReload(key, index) ==
  IF key.dir = "sections" THEN hotReloadSections(key, index) ELSE <<OtherEvent(key)>>

\* JSON.stringify(event)
JSONstringify(event) ==
  IF event.type = "section"
    THEN <<"type", event.type, "key", event.key, "names", event.names>>
    ELSE <<"type", event.type, "key", event.key>>

NoStream == [state |-> "none", from |-> 0, received |-> <<>>]

\* An event stream that starts with everything emitted so far.
createEventStreamReplaying(emitted) == [i \in 1..Len(emitted) |-> JSONstringify(emitted[i])]

\* createEventStream(event): what a new stream holds.
createEventStream(emitted) == <<>>

\* eventStream.push(message): written to an open stream, dropped on a closed one.
push(stream, message) ==
  IF stream.state = "open" THEN [stream EXCEPT !.received = Append(@, message)] ELSE stream

\* emit stopping at the first handler whose stream is closed.
RECURSIVE emitUntilClosed(_, _, _)
emitUntilClosed(strs, handlers, event) ==
  IF handlers = <<>> \/ strs[Head(handlers)].state # "open" THEN strs
  ELSE emitUntilClosed([strs EXCEPT ![Head(handlers)] = push(@, JSONstringify(event))],
                       Tail(handlers), event)

\* eventEmitter.emit('hot-reload', event): every registered handler is called,
\* in registration order.
RECURSIVE emit(_, _, _)
emit(strs, handlers, event) ==
  IF handlers = <<>> THEN strs
  ELSE emit([strs EXCEPT ![Head(handlers)] = push(@, JSONstringify(event))],
            Tail(handlers), event)

emitAll(strs, handlers, events) ==
  IF events = <<>> THEN strs ELSE emit(strs, handlers, events[1])

Watched(op, key, content, state) == [op |-> op, key |-> key, content |-> content, state |-> state]

-----------------------------------------------------------------------------
(* The live-preview server: page render and section re-render *)

\* The two html handlers of html.ts: the one answering a failure through
\* sendWebResponse and the one answering it through event.respondWith.
Handlers == {"sendWebResponse", "respondWith"}

\* What render() can reject with: an error with a message, maybe a stack
\* (the message, then the frames), maybe a statusCode and a request id. An
\* optional field is a sequence of at most one value.
NoStack == <<>>
Missing == <<>>
RenderErrors ==
  { [message |-> "fetch failed", stack |-> <<"fetch failed", "at render">>,
     statusCode |-> <<502>>, requestId |-> Missing],
    [message |-> "Unauthorized", stack |-> NoStack,
     statusCode |-> <<401>>, requestId |-> <<"req-1">>],
    [message |-> "boom", stack |-> <<"boom", "at render">>,
     statusCode |-> Missing, requestId |-> Missing] }

\* The live-reload option of the server.
LiveReloadModes == {"hot-reload", "off"}

\* getInMemoryTemplates handing out the cache object itself.
getInMemoryTemplatesShared(cache) == [shared |-> TRUE, value |-> cache]

\* getInMemoryTemplates(): a copy of the cache.
getInMemoryTemplates(cache) == [shared |-> FALSE, value |-> cache]

NoReplacements == [shared |-> FALSE, value |-> NoTemplates]
NoContext == [sectionId |-> "", replaceTemplates |-> NoReplacements]

\* The render context of a page without any replacement.
PageContextNoTemplates(cache) == NoContext

\* The render context of a page request.
PageContext(cache) == [sectionId |-> "", replaceTemplates |-> getInMemoryTemplates(cache)]

\* The render context of a section re-render: one replacement.
SectionContext(cache, sectionId, sectionKey) ==
  [ sectionId |-> sectionId,
    replaceTemplates |-> [shared |-> FALSE,
                          value |-> [NoTemplates EXCEPT ![sectionKey] = cache[sectionKey]]] ]

\* error.stack?.replace(`${error.message}\n`, '') ?? ''
StackDetail(error) ==
  IF error.stack = NoStack THEN <<>>
  ELSE IF Head(error.stack) = error.message THEN Tail(error.stack) ELSE error.stack

\* The headline of a failed page render.
Headline(handler, error) ==
  IF handler = "sendWebResponse"
    THEN <<"Failed to render storefront ",
           IF error.requestId = Missing THEN "" ELSE error.requestId[1]>>
    ELSE <<"Failed to render storefront.">>

\* getErrorPage(options)
getErrorPage(title, header, message, code) ==
  [kind |-> "error page", title |-> title, header |-> header, message |-> message, code |-> code]

\* new Response(body, {status}): no status given means 200.
ResponseStatus(status) == IF status = Missing THEN 200 ELSE status[1]

\* The status of the error page: the error's own statusCode in the first
\* handler, 502 in the second.
ErrorStatus(handler, error) ==
  IF handler = "sendWebResponse" THEN ResponseStatus(error.statusCode) ELSE 502

\* What the catch of a page render answers with.
ErrorResponse(handler, error) ==
  [ status |-> ErrorStatus(handler, error),
    body |-> getErrorPage(Headline(handler, error), Headline(handler, error),
                          error.message, StackDetail(error)) ]

\* The html of a rendered page, with the hot-reload script unless live reload is off.
PageResponse(status, liveReload) ==
  [ status |-> status,
    body |-> [kind |-> "storefront", hotReloadScript |-> liveReload # "off"] ]

NoAnswer == [status |-> 0, body |-> [kind |-> "(none)"]]

\* The query of GET /__hot-reload/render and the answer to it; marker is the
\* x-templates-from-params header of the answer.
SectionIds == {Missing, <<"template--1__hero">>}
SectionKeys == {Missing, <<HeaderLiquid>>}
NoQueryParams == [sectionId |-> Missing, sectionKey |-> Missing]
NoSectionAnswer == [status |-> 0, marker |-> Missing]
NoSectionRequest ==
  [state |-> "idle", query |-> NoQueryParams, context |-> NoContext, response |-> NoSectionAnswer]
\* The handler returns undefined: an empty answer with no header of the renderer.
EmptyAnswer == [status |-> 204, marker |-> Missing]

\* A truthy template also when it is the empty string.
HasTemplateOrEmpty(sectionTemplate) == sectionTemplate # NoContent

\* !sectionTemplate is false: the key is cached with a non-empty content.
HasTemplate(sectionTemplate) == sectionTemplate \notin {NoContent, EmptyMarkup}

\* The contents a file of the previewed theme can have.
PreviewContentsOf(key) ==
  IF key = HeaderLiquid THEN {HeaderMarkup, EmptyMarkup} ELSE ContentsOf(key)
NoRequest == [state |-> "idle", context |-> NoContext, response |-> NoAnswer]

-----------------------------------------------------------------------------
(* The script injected in the page: hotReloadScript *)

\* The section instances the page shows; the element of instance name has the
\* id shopify-section-template--1__<name>.
PageSections == {"hero", "top"}
ElementId(name) == <<"shopify-section-", "template--1__", name>>

\* The events a page can be sent: a section event for sections/header.liquid
\* with its names, or an other event.
NameLists == {<<>>, <<"hero">>, <<"hero", "top">>, <<"footer">>}
PageEvents ==
  { SectionEvent(HeaderLiquid, names) : names \in NameLists } \cup {OtherEvent(ThemeCssFile)}

\* JSON.parse(event.data) of what JSON.stringify wrote.
ParseEvent(data) ==
  IF data[2] = "section" THEN SectionEvent(data[4], data[6]) ELSE OtherEvent(data[4])

\* document.querySelectorAll(`[id^='shopify-section'][id$='${name}']`) over
\* the names: the instances of the page whose element id ends with a name.
MatchingElements(names) ==
  { name \in PageSections :
      \E n \in 1..Len(names) : ElementId(name)[Len(ElementId(name))] = names[n] }

\* element.id.replace(/^shopify-section-/, '')
SectionIdOf(name) == Tail(ElementId(name))

\* response.headers.get('x-templates-from-params') === '1'
Honoured(marker) == marker = "1"

NoFetch == [node |-> 0, state |-> "none"]

-----------------------------------------------------------------------------
(* The state machine *)

NoReply == [present |-> FALSE, deletedThemeId |-> NoThemeId, userErrors |-> <<>>]
NoCall == [op |-> "(none)", assets |-> <<>>, req |-> Request("", "", NoParams, NoQuery), reply |-> NoReply]

RestInit ==
  /\ pc = "idle"
  /\ call = NoCall
  /\ sent = <<>>
  /\ replies = <<>>
  /\ lastResponse = NoResponse
  /\ gateLeft = 0
  /\ sleepLeft = 0
  /\ waited = 0
  /\ rateLimit = UnknownLimit
  /\ outcome = Pending
  /\ result = NoValue

SyncIdle ==
  /\ syncIn = NoSync
  /\ planOut = NoPlan
  /\ pull = NoPull

HotIdle ==
  /\ initialized = FALSE
  /\ inMemoryTemplates = NoTemplates
  /\ parsedJsonTemplates = <<>>
  /\ watched = <<>>
  /\ listeners = <<>>
  /\ streams = [c \in Clients |-> NoStream]
  /\ published = <<>>

PreviewIdle ==
  /\ pages = [h \in Handlers |-> NoRequest]
  /\ section = NoSectionRequest

BrowserIdle ==
  /\ dom = [name \in PageSections |-> [node |-> 0, shown |-> 0]]
  /\ inbox = <<>>
  /\ reloaded = FALSE

\* setTimeout(hotReloadScript, 2000)
ReconnectDelay == 2000

\* The script has run once at page load and created its EventSource.
ChannelIdle ==
  /\ sources = <<"connecting">>
  /\ timers = <<>>
  /\ handled = 0

\* The cursors of the app-logs endpoint; an undefined cursor is Missing.
Cursors == {Missing, <<"cursor-1">>, <<"cursor-2">>}

\* One pollAppLogs invocation: its cursor argument, where it stands, the
\* status of the response it got (0 before any), the cursor of a processed
\* response and how it ended.
Invocation(cursor) ==
  [cursor |-> cursor, at |-> "fetching", status |-> 0, cursorFromResponse |-> Missing,
   ended |-> "(running)"]

\* No polling chain has been started.
LogsIdle ==
  /\ invocations = <<>>
  /\ scheduled = <<>>

\* No theme call under way: no request sent, nothing created remotely,
\* nothing returned.
NoJob ==
  [fn |-> "(none)", at |-> "idle", requests |-> <<>>, statuses |-> <<>>, theme |-> Missing,
   created |-> Missing, assets |-> Missing, ended |-> "(running)", value |-> Missing,
   manifest |-> Missing]

ThemesIdle == job = NoJob

Init == RestInit /\ SyncIdle /\ HotIdle /\ PreviewIdle /\ BrowserIdle /\ ChannelIdle /\ LogsIdle /\ ThemesIdle

\* An API function calls request(): the request waits at the pacing gate.
Start(c) ==
  /\ pc = "idle"
  /\ call' = c
  /\ pc' = "gate"
  /\ gateLeft' = ThrottleDelay(rateLimit)
  /\ waited' = 0
  /\ UNCHANGED <<sent, replies, lastResponse, sleepLeft, rateLimit, outcome, result>>
  /\ UNCHANGED outsideRest

CallDeleteThemeAsset ==
  \E key \in AssetKeys :
    Start([NoCall EXCEPT !.op = "deleteThemeAsset",
                         !.req = Request("DELETE", "/themes/{id}/assets", NoParams, <<"asset[key]", key>>)])

CallBulkUploadThemeAssets ==
  \E assets \in AssetLists :
    Start([NoCall EXCEPT !.op = "bulkUploadThemeAssets", !.assets = assets,
                         !.req = Request("PUT", "/themes/{id}/assets/bulk", assets, NoQuery)])

\* Time passes while a timer (pacing delay or retry-after sleep) is pending.
Tick ==
  /\ \/ pc = "gate" /\ gateLeft > 0
     \/ pc = "sleeping" /\ sleepLeft > 0
  /\ gateLeft' = IF pc = "gate" THEN gateLeft - 1 ELSE gateLeft
  /\ sleepLeft' = IF pc = "sleeping" THEN sleepLeft - 1 ELSE sleepLeft
  /\ waited' = waited + 1
  /\ UNCHANGED <<pc, call, sent, replies, lastResponse, rateLimit, outcome, result>>
  /\ UNCHANGED outsideRest

\* The pacing gate opens: restRequest(method, path, session, params, searchParams).
Issue ==
  /\ pc = "gate"
  /\ gateLeft = 0
  /\ sent' = Append(sent, [req |-> call.req, waited |-> waited])
  /\ pc' = "inflight"
  /\ UNCHANGED <<call, replies, lastResponse, gateLeft, sleepLeft, waited, rateLimit, outcome, result>>
  /\ UNCHANGED outsideRest

\* The response arrives: request() updates the call budget and dispatches on
\* the status; a retry starts the retry-after sleep, anything else ends
\* request() and, with it, the API function.
Receive ==
  /\ pc = "inflight"
  /\ \E r \in Responses(call.op, call.assets,
                        Cardinality({ i \in 1..Len(replies) : replies[i].status = 429 })) :
       LET o == requestOutcome(r, store)
       IN /\ lastResponse' = r
          /\ replies' = Append(replies, [status |-> r.status, retryAfter |-> r.retryAfter])
          /\ rateLimit' = updateApiCallLimitFromResponse(rateLimit, r)
          /\ waited' = 0
          /\ IF o.kind = "retry"
               THEN /\ pc' = "sleeping"
                    /\ sleepLeft' = RetryDelay(r)
                    /\ UNCHANGED <<outcome, result>>
               ELSE /\ pc' = "done"
                    /\ outcome' = o
                    /\ result' = ApiResult(call, r, o)
                    /\ UNCHANGED sleepLeft
  /\ UNCHANGED <<call, sent, gateLeft>>
  /\ UNCHANGED outsideRest

\* delayAwareRetry re-invoking request() without waiting for the sleep to end.
WakeBeforeSleepEnds ==
  /\ pc = "sleeping"
  /\ call' = [call EXCEPT !.req = RetryRequest(call.req)]
  /\ pc' = "gate"
  /\ gateLeft' = ThrottleDelay(rateLimit)
  /\ UNCHANGED <<sent, replies, lastResponse, sleepLeft, waited, rateLimit, outcome, result>>
  /\ UNCHANGED outsideRest

\* The retry-after sleep is over: delayAwareRetry re-invokes request().
Wake ==
  /\ pc = "sleeping"
  /\ sleepLeft = 0
  /\ call' = [call EXCEPT !.req = RetryRequest(call.req)]
  /\ pc' = "gate"
  /\ gateLeft' = ThrottleDelay(rateLimit)
  /\ UNCHANGED <<sent, replies, lastResponse, sleepLeft, waited, rateLimit, outcome, result>>
  /\ UNCHANGED outsideRest

\* themeDelete: one GraphQL mutation, no REST request.
ThemeDelete ==
  /\ pc = "idle"
  /\ \E reply \in ThemeDeleteReplies :
       /\ call' = [NoCall EXCEPT !.op = "themeDelete", !.reply = reply]
       /\ result' = themeDelete(reply)
  /\ pc' = "done"
  /\ UNCHANGED <<sent, replies, lastResponse, gateLeft, sleepLeft, waited, rateLimit, outcome>>
  /\ UNCHANGED outsideRest

\* The caller has its result; the next API call may start.
Finish ==
  /\ pc = "done"
  /\ pc' = "idle"
  /\ call' = NoCall
  /\ sent' = <<>>
  /\ replies' = <<>>
  /\ lastResponse' = NoResponse
  /\ waited' = 0
  /\ outcome' = Pending
  /\ result' = NoValue
  /\ UNCHANGED <<gateLeft, sleepLeft, rateLimit>>
  /\ UNCHANGED outsideRest

Next ==
  \/ CallDeleteThemeAsset
  \/ CallBulkUploadThemeAssets
  \/ Tick
  \/ Issue
  \/ Receive
  \/ Wake
  \/ ThemeDelete
  \/ Finish

Spec == Init /\ [][Next]_vars

-----------------------------------------------------------------------------
(* Properties of request() *)

LastReply == lastResponse
Throttled == { i \in 1..Len(replies) : replies[i].status = 429 }
Dispatched == replies # <<>> /\ pc \in {"done", "sleeping"}
ErrorText(o) == IF Len(o.error.message) >= 4 THEN o.error.message[4] ELSE ""

\* C1: every request re-issued after a 429 is issued at least retry-after
\* seconds after that 429 arrived, never earlier, and has the method, path,
\* body params and query params of the first request.
RetryAfterRespected ==
  /\ \A i \in 2..Len(sent) :
       /\ replies[i - 1].status = 429
       /\ sent[i].waited >= replies[i - 1].retryAfter
       /\ sent[i].req = sent[1].req
  /\ pc = "sleeping" => Len(sent) = Len(replies) /\ waited + sleepLeft = LastReply.retryAfter

RetriedAfterWait ==
  /\ Len(sent) >= 2
  /\ call.op = "deleteThemeAsset"
  /\ replies[1].status = 429
  /\ replies[1].retryAfter = MaxRetryAfter
  /\ sent[2].waited >= MaxRetryAfter

\* C2 as stated: every status received takes exactly one outcome - 200-399
\* and 404 return the response, 429 retries, 403, 401, 422, any other 4xx and
\* any 5xx raise their own fatal error - and no status falls outside these
\* cases.
DispatchExhaustive ==
  Dispatched =>
    LET s == LastReply.status
        returned == pc = "done" /\ outcome.kind = "returned"
        raised == pc = "done" /\ outcome.kind = "raised" /\ outcome.error.class = "AbortError"
        retried == pc = "sleeping" /\ outcome = Pending
    IN /\ (s >= 200 /\ s <= 399) => returned
       /\ s = 404 => returned
       /\ s = 429 => retried
       /\ s = 403 => raised /\ outcome.error.message # <<>>
       /\ s = 401 => raised /\ ErrorText(outcome) = "API request unauthorized error"
       /\ s = 422 => raised /\ ErrorText(outcome) = "API request unprocessable content:"
       /\ (s >= 400 /\ s <= 499 /\ s \notin {404, 429, 403, 401, 422})
            => raised /\ ErrorText(outcome) = "API request client error"
       /\ (s >= 500 /\ s <= 599) => raised /\ ErrorText(outcome) = "API request server error"
       /\ ErrorText(outcome) # "API request unexpected error"
       /\ Cardinality({ k \in {"returned", "raised", "retried"} :
                          \/ k = "returned" /\ returned
                          \/ k = "raised" /\ raised
                          \/ k = "retried" /\ retried }) = 1

\* C2, amended: the same outcomes for 200-599, and a status outside 200-599
\* raises the fatal "unexpected error" of the default case; with that case
\* the dispatch is exhaustive and its cases exclude each other.
DispatchExhaustiveWithDefault ==
  Dispatched =>
    LET s == LastReply.status
        returned == pc = "done" /\ outcome.kind = "returned"
        raised == pc = "done" /\ outcome.kind = "raised" /\ outcome.error.class = "AbortError"
        retried == pc = "sleeping" /\ outcome = Pending
    IN /\ (s >= 200 /\ s <= 399) => returned
       /\ s = 404 => returned
       /\ s = 429 => retried
       /\ s = 403 => raised /\ outcome.error.message # <<>>
       /\ s = 401 => raised /\ ErrorText(outcome) = "API request unauthorized error"
       /\ s = 422 => raised /\ ErrorText(outcome) = "API request unprocessable content:"
       /\ (s >= 400 /\ s <= 499 /\ s \notin {404, 429, 403, 401, 422})
            => raised /\ ErrorText(outcome) = "API request client error"
       /\ (s >= 500 /\ s <= 599) => raised /\ ErrorText(outcome) = "API request server error"
       /\ (s < 200 \/ s > 599) => raised /\ ErrorText(outcome) = "API request unexpected error"
       /\ Cardinality({ k \in {"returned", "raised", "retried"} :
                          \/ k = "returned" /\ returned
                          \/ k = "raised" /\ raised
                          \/ k = "retried" /\ retried }) = 1

UnexpectedStatusRaised ==
  /\ pc = "done"
  /\ replies # <<>>
  /\ LastReply.status > 599
  /\ outcome.kind = "raised"
  /\ ErrorText(outcome) = "API request unexpected error"

\* C3: only a 429 is answered by another request - after a 401, 403, 422,
\* any other 4xx or any 5xx, request() raises and the call sends nothing more.
RetryOnlyOn429 ==
  /\ Len(sent) <= Cardinality(Throttled) + 1
  /\ \A i \in 1..Len(replies) :
       replies[i].status # 429 => i = Len(replies) /\ Len(sent) = i /\ pc = "done"
  /\ \A i \in 1..Len(replies) :
       (replies[i].status >= 400 /\ replies[i].status \notin {404, 429})
         => outcome.kind = "raised" /\ result.kind = "raised" /\ result.error = outcome.error

ServerErrorRaised ==
  /\ pc = "done"
  /\ Len(sent) = 2
  /\ replies[1].status = 429
  /\ LastReply.status = 500
  /\ result.kind = "raised"

\* The text contains the words "Cannot delete generated asset".
ContainsGeneratedAsset(text) ==
  \E i \in 0..Len(text), j \in 1..(Len(text) + 1) :
    text = SubSeq(text, 1, i) \o GeneratedAsset \o SubSeq(text, j, Len(text))

\* C4: a 403 whose body message contains "Cannot delete generated asset"
\* raises an error with exactly that message; any other 403, also one without
\* a string message, raises the not-authorized error that names the store and
\* whose guidance carries the store's admin URL.
ForbiddenErrors ==
  (pc = "done" /\ replies # <<>> /\ LastReply.status = 403) =>
    LET message == LastReply.json.message
    IN /\ outcome.kind = "raised"
       /\ result = Throws(outcome.error)
       /\ outcome.error.class = "AbortError"
       /\ IF message.type = "string" /\ ContainsGeneratedAsset(message.text)
            THEN outcome.error.message = message.text
            ELSE /\ outcome.error.message = <<"You are not authorized to edit themes on", store>>
                 /\ \E i \in 1..Len(outcome.error.tryMessage) :
                      outcome.error.tryMessage[i] = "https://my-shop.myshopify.com/admin"

GeneratedAssetSurfaced ==
  /\ pc = "done"
  /\ replies # <<>>
  /\ LastReply.status = 403
  /\ LastReply.json.message.type = "string"
  /\ Len(LastReply.json.message.text) > Len(GeneratedAsset)
  /\ outcome.error.message = LastReply.json.message.text

\* C5: the retry loop has no cap - the call ends exactly when a status other
\* than 429 arrives; while every answer is a 429 the call stays pending, and
\* each 429 is followed by a sleep and another request.
RetriesUnbounded ==
  /\ (pc = "done" /\ replies # <<>>) => LastReply.status # 429
  /\ (\E i \in 1..Len(replies) : replies[i].status # 429) => pc = "done"
  /\ (replies # <<>> /\ Throttled = 1..Len(replies)) =>
       /\ pc \in {"sleeping", "gate", "inflight"}
       /\ outcome = Pending
       /\ result = NoValue
       /\ Len(sent) = Len(replies) + (IF pc = "inflight" THEN 1 ELSE 0)
  /\ pc \in {"sleeping", "gate"} => ENABLED (Tick \/ Wake \/ Issue)

StillRetrying ==
  /\ pc = "inflight"
  /\ Len(replies) = MaxRetries
  /\ Throttled = 1..MaxRetries
  /\ Len(sent) = MaxRetries + 1

-----------------------------------------------------------------------------
(* Properties of the API functions *)

BulkDone == pc = "done" /\ call.op = "bulkUploadThemeAssets" /\ replies # <<>>
Entries == LastReply.json.results.list

\* C6: a bulk upload whose response status is not 207 raises and returns no
\* results, also for another 2xx status and for a 404 that request() returned.
BulkRaisesUnless207 ==
  (BulkDone /\ LastReply.status # 207) =>
    /\ result.kind = "raised"
    /\ result.list = <<>>
    /\ result.error.class = "AbortError"

BulkRaisedOnReturnedStatus ==
  /\ BulkDone
  /\ LastReply.status = 200
  /\ Len(Entries) = MaxAssets
  /\ outcome.kind = "returned"
  /\ result.kind = "raised"

\* C7: with a 207 the bulk upload returns one result per submitted asset, in
\* request order; result i is a success carrying the returned asset when
\* entry i has a 2xx code, and otherwise a failure carrying the returned
\* errors and no asset; a failed entry never makes the call raise.
BulkResultsPerAsset ==
  (BulkDone /\ LastReply.status = 207) =>
    /\ result.kind = "value"
    /\ Len(result.list) = Len(call.assets)
    /\ \A i \in 1..Len(call.assets) :
         LET r == result.list[i]
             e == Entries[i]
         IN /\ r.key = call.assets[i]
            /\ r.operation = "UPLOAD"
            /\ IF e.code >= 200 /\ e.code <= 299
                 THEN r.success /\ r.asset = e.asset /\ r.asset.present /\ r.errors = "{}"
                 ELSE ~r.success /\ r.errors = e.errors /\ ~r.asset.present

BulkPartialFailure ==
  /\ BulkDone
  /\ LastReply.status = 207
  /\ Len(Entries) = 2
  /\ Entries[1].code = 200
  /\ Entries[2].code = 400
  /\ result.kind = "value"
  /\ result.list[1].success
  /\ ~result.list[2].success

DeleteReportsSuccess ==
  (pc = "done" /\ call.op = "deleteThemeAsset" /\ outcome.kind = "returned"
     /\ LastReply.status >= 200 /\ LastReply.status <= 399)
    => result = BoolValue(TRUE)

\* C10: themeDelete returns true only with a deleted theme id, and without
\* one raises an AbortError built from the user-error messages.
ThemeDeleteAbortError ==
  (pc = "done" /\ call.op = "themeDelete") =>
    IF call.reply.present /\ call.reply.deletedThemeId # NoThemeId
      THEN result = BoolValue(TRUE)
      ELSE /\ result.kind = "raised"
           /\ result.error.class = "AbortError"
           /\ call.reply.present => result.error.message = Join(call.reply.userErrors)

-----------------------------------------------------------------------------
(* The sync pass: one plan and one pull over the same remote checksum list *)

SyncInit ==
  /\ RestInit
  /\ syncIn \in [remote : RemoteLists, local : LocalLists, excludeGenerated : BOOLEAN]
  /\ planOut = NoPlan
  /\ pull = NoPull
  /\ HotIdle
  /\ PreviewIdle
  /\ BrowserIdle
  /\ ChannelIdle
  /\ LogsIdle
  /\ ThemesIdle

\* plan(remoteChecksums, localFiles, excludeGenerated)
Plan ==
  /\ ~planOut.made
  /\ planOut' = plan(syncIn.remote, syncIn.local, syncIn.excludeGenerated)
  /\ UNCHANGED <<syncIn, pull>>
  /\ UNCHANGED outsideSync

\* executePull up to the guard: isEmptyDir, hasRequiredThemeDirectories and,
\* only when both are false, currentDirectoryConfirmed(force), which answers
\* true without asking when force is set and prompts the user otherwise.
PullStart(dir, force) ==
  /\ pull.pc = "idle"
  /\ pull' = [pull EXCEPT !.dir = dir, !.force = force,
                          !.asked = NeedsConfirmation(dir) /\ ~force,
                          !.pc = IF NeedsConfirmation(dir) /\ ~force
                                 THEN "asking" ELSE "mounted"]
  /\ UNCHANGED <<syncIn, planOut>>
  /\ UNCHANGED outsideSync

\* The user answers the prompt; on "no" executePull returns.
PullAnswer(yes) ==
  /\ pull.pc = "asking"
  /\ pull' = [pull EXCEPT !.confirmed = yes,
                          !.pc = IF yes THEN "mounted" ELSE "returned"]
  /\ UNCHANGED <<syncIn, planOut>>
  /\ UNCHANGED outsideSync

\* fetchChecksums, rejectGeneratedStaticAssets, and the call of downloadTheme
\* with the filtered list.
PullDownload ==
  /\ pull.pc = "mounted"
  /\ pull' = [pull EXCEPT !.handed = rejectGeneratedStaticAssets(syncIn.remote),
                          !.pc = "downloading"]
  /\ UNCHANGED <<syncIn, planOut>>
  /\ UNCHANGED outsideSync

\* downloadTheme resolves and executePull reports success.
PullFinish ==
  /\ pull.pc = "downloading"
  /\ pull' = [pull EXCEPT !.pc = "done"]
  /\ UNCHANGED <<syncIn, planOut>>
  /\ UNCHANGED outsideSync

SyncNext ==
  \/ Plan
  \/ \E dir \in Directories, force \in BOOLEAN : PullStart(dir, force)
  \/ \E yes \in BOOLEAN : PullAnswer(yes)
  \/ PullDownload
  \/ PullFinish

SyncSpec == SyncInit /\ [][SyncNext]_vars

Planned == planOut.made
Considered == IF syncIn.excludeGenerated THEN { k \in KeysIn(syncIn.remote) : ~IsGenerated(k, syncIn.remote) }
              ELSE KeysIn(syncIn.remote)
DownloadReached == pull.pc \in {"downloading", "done"}

\* C11: the plan's toUpload, toDelete and unchanged are pairwise disjoint and
\* their union is exactly the local keys together with the remote keys that
\* were not excluded.
PlanPartitions ==
  Planned =>
    /\ planOut.toUpload \cap planOut.toDelete = {}
    /\ planOut.toUpload \cap planOut.unchanged = {}
    /\ planOut.toDelete \cap planOut.unchanged = {}
    /\ planOut.toUpload \cup planOut.toDelete \cup planOut.unchanged
         = KeysIn(syncIn.local) \cup Considered

\* C11 witness: a plan whose three sets are all non-empty.
PlanWithAllThree ==
  /\ Planned
  /\ planOut.toUpload # {}
  /\ planOut.toDelete # {}
  /\ planOut.unchanged # {}

\* C12: a key whose remote checksum is null is in toUpload and not in
\* unchanged, whatever its local checksum.
NullForcesUpload ==
  Planned =>
    \A k \in Considered :
      syncIn.remote[k] = Null => k \in planOut.toUpload /\ k \notin planOut.unchanged

\* C12 witness: a planned key with a null remote checksum whose local checksum
\* value is the same.
NullEqualLocalUploaded ==
  /\ Planned
  /\ \E k \in Considered :
       syncIn.remote[k] = Null /\ syncIn.local[k] = Null /\ k \in planOut.toUpload

EndToEndScenario ==
  /\ syncIn.local[ThemeCss] \notin {Absent, Null}
  /\ syncIn.remote[ThemeCss] \notin {Absent, Null}
  /\ syncIn.local[ThemeCss] # syncIn.remote[ThemeCss]
  /\ syncIn.local[Template404] = Absent
  /\ syncIn.remote[Template404] = Null

\* C13: in the end-to-end scenario toUpload contains templates/404.json and
\* assets/theme.css, and templates/404.json is not planned as a delete.
ScenarioUploadsBoth ==
  Planned /\ EndToEndScenario =>
    /\ Template404 \in planOut.toUpload
    /\ ThemeCss \in planOut.toUpload
    /\ Template404 \notin planOut.toDelete

\* C13 witness: the scenario has been planned.
ScenarioPlanned == Planned /\ EndToEndScenario /\ Template404 \in planOut.toUpload

DownloadOnlyConfirmedOrForced ==
  DownloadReached => pull.force \/ (pull.asked /\ pull.confirmed)

\* C15: in a non-empty directory without the required theme directories the
\* download step is reached only with force or with the user's confirmation;
\* in an empty directory or a theme directory the user is never asked.
DownloadConfirmedOutsideThemeDir ==
  /\ DownloadReached /\ pull.dir = "other" => pull.force \/ (pull.asked /\ pull.confirmed)
  /\ pull.dir \in {"empty", "theme"} => ~pull.asked
  /\ pull.pc = "returned" => pull.asked /\ ~pull.confirmed /\ ~pull.force

\* C15 witness: the download step reached in a non-empty directory that is not
\* a theme directory, after the user confirmed.
DownloadAfterConfirmation ==
  DownloadReached /\ pull.dir = "other" /\ ~pull.force /\ pull.asked /\ pull.confirmed


-----------------------------------------------------------------------------
(* Hot reload: the watcher, the reads in flight and the subscribers *)

HotInit == RestInit /\ SyncIdle /\ HotIdle /\ PreviewIdle /\ BrowserIdle /\ ChannelIdle /\ LogsIdle /\ ThemesIdle

\* emitHotReloadEvent for the events a trigger produced.
Publish(events) ==
  /\ published' = published \o events
  /\ streams' = emitAll(streams, listeners, events)

\* The read condition holding for every template file.
ReadsFileAlways(extension, ready) == TRUE

\* Whether handleFileUpdate reads a .liquid or .json file: during the initial
\* scan only JSON files are read.
ReadsFile(extension, ready) == ready \/ extension = ".json"

\* handleFileUpdate(filePath) on add or change.
HandleFileUpdate(key, content) ==
  /\ Len(watched) < MaxFileEvents
  /\ IF extname(key) \in {".liquid", ".json"}
       THEN /\ watched' = Append(watched, Watched("update", key, content,
                            IF ReadsFile(extname(key), initialized) THEN "reading" ELSE "ignored"))
            /\ UNCHANGED <<streams, published>>
       ELSE IF initialized
         THEN /\ Publish(triggerHotReload(key, parsedJsonTemplates))
              /\ watched' = Append(watched, Watched("update", key, content, "done"))
         ELSE /\ watched' = Append(watched, Watched("update", key, content, "ignored"))
              /\ UNCHANGED <<streams, published>>
  /\ UNCHANGED <<initialized, inMemoryTemplates, parsedJsonTemplates, listeners>>
  /\ UNCHANGED outsideHot

\* readFile resolves: setInMemoryTemplate, then triggerHotReload; a throw of
\* JSON.parse goes to the catch, which only warns.
ReadResolve(i) ==
  /\ watched[i].state = "reading"
  /\ LET set == setInMemoryTemplate(inMemoryTemplates, parsedJsonTemplates,
                                    watched[i].key, watched[i].content)
     IN /\ inMemoryTemplates' = set.cache
        /\ parsedJsonTemplates' = set.index
        /\ IF set.threw
             THEN /\ watched' = [watched EXCEPT ![i].state = "warned"]
                  /\ UNCHANGED <<streams, published>>
             ELSE /\ watched' = [watched EXCEPT ![i].state = "done"]
                  /\ Publish(triggerHotReload(watched[i].key, set.index))
  /\ UNCHANGED <<initialized, listeners>>
  /\ UNCHANGED outsideHot

\* readFile rejects: the catch warns.
ReadReject(i) ==
  /\ watched[i].state = "reading"
  /\ watched' = [watched EXCEPT ![i].state = "warned"]
  /\ UNCHANGED <<initialized, inMemoryTemplates, parsedJsonTemplates, listeners, streams, published>>
  /\ UNCHANGED outsideHot

\* The unlink handler: deleteInMemoryTemplate(getKey(filePath)).
Unlink(key) ==
  /\ Len(watched) < MaxFileEvents
  /\ LET deleted == deleteInMemoryTemplate(inMemoryTemplates, parsedJsonTemplates, key)
     IN /\ inMemoryTemplates' = deleted.cache
        /\ parsedJsonTemplates' = deleted.index
  /\ watched' = Append(watched, Watched("unlink", key, NoContent, "done"))
  /\ UNCHANGED <<initialized, listeners, streams, published>>
  /\ UNCHANGED outsideHot

\* The ready handler.
Ready ==
  /\ ~initialized
  /\ initialized' = TRUE
  /\ UNCHANGED <<inMemoryTemplates, parsedJsonTemplates, watched, listeners, streams, published>>
  /\ UNCHANGED outsideHot

\* GET /__hot-reload/subscribe: a new stream and a new handler on the bus.
Subscribe(c) ==
  /\ streams[c].state = "none"
  /\ streams' = [streams EXCEPT ![c] = [state |-> "open", from |-> Len(published),
                                        received |-> createEventStream(published)]]
  /\ listeners' = Append(listeners, c)
  /\ UNCHANGED <<initialized, inMemoryTemplates, parsedJsonTemplates, watched, published>>
  /\ UNCHANGED outsideHot

\* The tab goes away and its stream closes.
Disconnect(c) ==
  /\ streams[c].state = "open"
  /\ streams' = [streams EXCEPT ![c].state = "closed"]
  /\ UNCHANGED <<initialized, inMemoryTemplates, parsedJsonTemplates, watched, listeners, published>>
  /\ UNCHANGED outsideHot

HotNext ==
  \/ \E key \in WatchedKeys : \E content \in ContentsOf(key) : HandleFileUpdate(key, content)
  \/ \E i \in 1..Len(watched) : ReadResolve(i)
  \/ \E i \in 1..Len(watched) : ReadReject(i)
  \/ \E key \in WatchedKeys : Unlink(key)
  \/ Ready
  \/ \E c \in Clients : Subscribe(c)
  \/ \E c \in Clients : Disconnect(c)

HotSpec == HotInit /\ [][HotNext]_vars

Range(seq) == { seq[i] : i \in 1..Len(seq) }

\* The handling of watched event i runs setInMemoryTemplate and
\* triggerHotReload in this step.
Triggered(i) ==
  /\ i \in 1..Len(watched)
  /\ watched[i].state = "reading"
  /\ watched'[i].state = "done"

\* A watcher event is handled in this step and triggers at once.
TriggeredDirectly ==
  /\ Len(watched') = Len(watched) + 1
  /\ watched'[Len(watched')].op = "update"
  /\ watched'[Len(watched')].state = "done"

\* The instance names, over all templates of the index, of type sectionId.
InstancesOf(index, sectionId) ==
  { sec.name : sec \in { s \in UNION { Range(index[t].value.sections) : t \in 1..Len(index) } :
                           s.type = sectionId } }

LastPublished == published'[Len(published')]
PublishedOne == Len(published') = Len(published) + 1

Unreferenced(key, index) == InstancesOf(index, key.name) = {}

\* C17: publishing a change for a key that no template of the index
\* references, a key under sections/ included, emits one other event for it.
UnreferencedPublishedAsOther ==
  [][ /\ \A i \in 1..Len(watched) :
           Triggered(i) /\ Unreferenced(watched[i].key, parsedJsonTemplates') =>
             PublishedOne /\ LastPublished = OtherEvent(watched[i].key)
      /\ TriggeredDirectly /\ Unreferenced(watched'[Len(watched')].key, parsedJsonTemplates') =>
           PublishedOne /\ LastPublished = OtherEvent(watched'[Len(watched')].key)
    ]_vars

Subscribed(c) == streams[c].state # "none"
Connected(c) == streams[c].state = "open"

\* The events published from position first on, as they are pushed.
PushedFrom(first, count) == [n \in 1..count |-> JSONstringify(published[first + n])]

\* C18: what a subscriber has been pushed is a run of the published events, in
\* publish order, that starts with the first event published after it
\* subscribed.
PushedInPublishOrder ==
  \A c \in Clients :
    Subscribed(c) =>
      /\ streams[c].from + Len(streams[c].received) <= Len(published)
      /\ streams[c].received = PushedFrom(streams[c].from, Len(streams[c].received))

\* C18 witness: one tab has been pushed two different events in order, another
\* subscribed after the first of them and has been pushed only the second.
LateSubscriberMissedFirst ==
  \E c, d \in Clients :
    /\ streams[c].from = 0 /\ Len(streams[c].received) = 2
    /\ streams[c].received[1] # streams[c].received[2]
    /\ Subscribed(d) /\ streams[d].from = 1 /\ streams[d].received = <<streams[c].received[2]>>

\* C19: once a subscriber has disconnected, every connected subscriber has
\* still been pushed every event published since it subscribed, and every
\* read that resolved with content that parses ended with its publish.
OthersReceiveAfterDisconnect ==
  (\E d \in Clients : streams[d].state = "closed") =>
    /\ \A c \in Clients :
         Connected(c) => Len(streams[c].received) = Len(published) - streams[c].from
    /\ \A i \in 1..Len(watched) :
         watched[i].state = "warned" => watched[i].op = "update" /\ extname(watched[i].key) \in {".liquid", ".json"}

\* C19 witness: the first registered handler belongs to a closed stream, and a
\* tab registered after it has been pushed an event published after the close.
PushedPastClosedStream ==
  \E c, d \in Clients :
    /\ listeners = <<d, c>>
    /\ streams[d].state = "closed" /\ Connected(c)
    /\ streams[c].from + Len(streams[c].received) > streams[d].from + Len(streams[d].received)

\* C20: handling a file delete removes the key from the override cache and
\* from the index and publishes one other event for the key.
UnlinkRemovesAndPublishes ==
  [][ Len(watched') = Len(watched) + 1 /\ watched'[Len(watched')].op = "unlink" =>
        LET key == watched'[Len(watched')].key IN
          /\ inMemoryTemplates'[key] = NoContent
          /\ \A t \in 1..Len(parsedJsonTemplates') : parsedJsonTemplates'[t].key # key
          /\ PublishedOne
          /\ LastPublished = OtherEvent(key)
    ]_vars

IsUpdate(i) == watched[i].op = "update"
LaterEventFor(i) == \E j \in (i + 1)..Len(watched) : watched[j].key = watched[i].key
BecomesReady == ~initialized /\ initialized'

\* C21: at the step that makes the mirror ready, the override cache holds the
\* content of every JSON file the initial scan found.
ReadyWithJsonCached ==
  [][ BecomesReady =>
        \A i \in 1..Len(watched) :
          IsUpdate(i) /\ extname(watched[i].key) = ".json" /\ ~LaterEventFor(i) =>
            inMemoryTemplates'[watched[i].key] = watched[i].content
    ]_vars

HandledNow == Len(watched') = Len(watched) + 1
Newest == watched'[Len(watched')]

\* C22: an add or change seen before the initial scan completes for a file
\* that is not a JSON file starts no read, changes neither the cache nor the
\* index and publishes nothing; an ignored event never starts a read or
\* publishes later.
EarlyNonJsonIgnored ==
  [][ /\ HandledNow /\ Newest.op = "update" /\ ~initialized /\ extname(Newest.key) # ".json" =>
           /\ Newest.state = "ignored"
           /\ UNCHANGED <<inMemoryTemplates, parsedJsonTemplates, published, streams>>
      /\ \A i \in 1..Len(watched) : watched[i].state = "ignored" => watched'[i] = watched[i]
    ]_vars

\* C22 witness: a change of sections/header.liquid seen during the initial
\* scan is still ignored after the mirror became ready, with nothing cached
\* and nothing published for it.
EarlyLiquidStillIgnored ==
  /\ initialized
  /\ \E i \in 1..Len(watched) : watched[i].key = HeaderLiquid /\ watched[i].state = "ignored"
  /\ inMemoryTemplates[HeaderLiquid] = NoContent
  /\ \A n \in 1..Len(published) : published[n].key # HeaderLiquid

-----------------------------------------------------------------------------
(* The live-preview server beside the watcher *)

PreviewInit == RestInit /\ SyncIdle /\ HotIdle /\ PreviewIdle /\ BrowserIdle /\ ChannelIdle /\ LogsIdle /\ ThemesIdle

\* getHtmlHandler: the request arrives and render() is called.
PageRequest(h) ==
  /\ pages[h].state = "idle"
  /\ pages' = [pages EXCEPT ![h] = [state |-> "rendering",
                                    context |-> PageContext(inMemoryTemplates),
                                    response |-> NoAnswer]]
  /\ UNCHANGED section
  /\ UNCHANGED hotVars
  /\ UNCHANGED outsidePreview

\* render() resolves: the page is patched, the script injected, the html returned.
PageRendered(h, liveReload) ==
  /\ pages[h].state = "rendering"
  /\ pages' = [pages EXCEPT ![h] = [state |-> "answered", context |-> NoContext,
                                    response |-> PageResponse(200, liveReload)]]
  /\ UNCHANGED section
  /\ UNCHANGED hotVars
  /\ UNCHANGED outsidePreview

\* render() rejects: the catch answers with the error page and the handler
\* returns nothing more.
PageFailed(h, error) ==
  /\ pages[h].state = "rendering"
  /\ pages' = [pages EXCEPT ![h] = [state |-> "answered", context |-> NoContext,
                                    response |-> ErrorResponse(h, error)]]
  /\ UNCHANGED section
  /\ UNCHANGED hotVars
  /\ UNCHANGED outsidePreview

\* GET /__hot-reload/render: without both query parameters, or without a
\* cached template for the key, the handler returns without rendering.
SectionRequest(sectionId, sectionKey) ==
  /\ section.state = "idle"
  /\ LET query == [sectionId |-> sectionId, sectionKey |-> sectionKey]
         unanswered == [state |-> "answered", query |-> query, context |-> NoContext,
                        response |-> EmptyAnswer]
     IN IF sectionId = Missing \/ sectionKey = Missing
          THEN section' = unanswered
          ELSE IF ~HasTemplate(inMemoryTemplates[sectionKey[1]])
            THEN section' = unanswered
            ELSE section' = [state |-> "rendering", query |-> query,
                             context |-> SectionContext(inMemoryTemplates, sectionId[1], sectionKey[1]),
                             response |-> NoSectionAnswer]
  /\ UNCHANGED pages
  /\ UNCHANGED hotVars
  /\ UNCHANGED outsidePreview

\* render() resolves for the section: its status, headers and text are returned.
SectionRendered(marker) ==
  /\ section.state = "rendering"
  /\ section' = [section EXCEPT !.state = "answered", !.context = NoContext,
                                 !.response = [status |-> 200, marker |-> marker]]
  /\ UNCHANGED pages
  /\ UNCHANGED hotVars
  /\ UNCHANGED outsidePreview

\* The tabs that subscribe while pages are previewed.
PreviewClients == {"tab1"}

PreviewNext ==
  \/ \E h \in Handlers : PageRequest(h)
  \/ \E h \in Handlers : \E liveReload \in LiveReloadModes : PageRendered(h, liveReload)
  \/ \E h \in Handlers : \E error \in RenderErrors : PageFailed(h, error)
  \/ \E sectionId \in SectionIds : \E sectionKey \in SectionKeys :
       SectionRequest(sectionId, sectionKey)
  \/ \E marker \in {Missing, <<"1">>} : SectionRendered(marker)
  \/ /\ Len(watched) < MaxPreviewFileEvents
     /\ \E key \in WatchedKeys : \E content \in PreviewContentsOf(key) : HandleFileUpdate(key, content)
  \/ \E i \in 1..Len(watched) : ReadResolve(i)
  \/ /\ Len(watched) < MaxPreviewFileEvents
     /\ \E key \in WatchedKeys : Unlink(key)
  \/ Ready
  \/ \E c \in PreviewClients : Subscribe(c)

PreviewSpec == PreviewInit /\ [][PreviewNext]_vars

RenderStarted(h) == pages[h].state = "idle" /\ pages'[h].state = "rendering"

\* C23: each page-render request hands render() a replacement map equal to
\* the whole override cache as it is when the request is handled.
PagePassesWholeCache ==
  [][ \A h \in Handlers :
        RenderStarted(h) =>
          /\ pages'[h].context.replaceTemplates.value = inMemoryTemplates
          /\ pages'[h].context.sectionId = ""
    ]_vars

\* C23 witness: a page render in flight whose replacement map holds the cached
\* content of a locally edited file.
PageRenderingWithOverride ==
  \E h \in Handlers :
    /\ pages[h].state = "rendering"
    /\ \E k \in WatchedKeys :
         /\ inMemoryTemplates[k] # NoContent
         /\ pages[h].context.replaceTemplates.value[k] = inMemoryTemplates[k]

IsErrorPage(answer) == answer.body.kind = "error page"

\* C24: a failed page render is answered with the inline error page
\* (headline, message, detail) and a 5xx status, and the step that answers it
\* leaves the event streams, the bus and every other request as they were.
RenderFailureAnswered ==
  [][ \A h \in Handlers :
        pages[h].state = "rendering" /\ pages'[h].state = "answered" /\ IsErrorPage(pages'[h].response) =>
          /\ pages'[h].response.status \in 500..599
          /\ pages'[h].response.body.header # <<>>
          /\ UNCHANGED <<streams, listeners, published, section>>
          /\ \A other \in Handlers \ {h} : pages'[other] = pages[other]
    ]_vars

-----------------------------------------------------------------------------
(* The page in the browser handling hot-reload events *)

BrowserInit == RestInit /\ SyncIdle /\ HotIdle /\ PreviewIdle /\ BrowserIdle /\ ChannelIdle /\ LogsIdle /\ ThemesIdle

\* evtSource.onmessage: an other event reloads the page; a section event
\* starts one partial fetch per matching element, each holding the element
\* found now.
OnMessage(event) ==
  /\ ~reloaded
  /\ Len(inbox) < MaxMessages
  /\ LET data == ParseEvent(JSONstringify(event))
         elements == IF data.type = "section" THEN MatchingElements(data.names) ELSE {}
     IN /\ inbox' = Append(inbox,
             [ event |-> data,
               fetches |-> [name \in PageSections |->
                              IF name \in elements
                                THEN [node |-> dom[name].node, state |-> "pending"]
                                ELSE NoFetch] ])
        /\ reloaded' = (data.type = "other")
  /\ UNCHANGED dom
  /\ UNCHANGED outsideBrowser

\* A partial fetch answers with an ok status: with the marker the element held
\* gets the new section as its outerHTML, which replaces it in the page when it
\* is still in the page and does nothing when an earlier swap has already
\* replaced it; without the marker the page reloads. The section rendered is
\* that of the event's change or of a later one.
FetchAnswered(n, name, marker, version) ==
  /\ ~reloaded
  /\ inbox[n].fetches[name].state = "pending"
  /\ version \in n..Len(inbox)
  /\ IF Honoured(marker)
       THEN /\ IF dom[name].node = inbox[n].fetches[name].node
                 THEN dom' = [dom EXCEPT ![name] = [node |-> @.node + 1, shown |-> version]]
                 ELSE UNCHANGED dom
            /\ inbox' = [inbox EXCEPT ![n].fetches[name].state = "swapped"]
            /\ UNCHANGED reloaded
       ELSE /\ inbox' = [inbox EXCEPT ![n].fetches[name].state = "unsupported"]
            /\ reloaded' = TRUE
            /\ UNCHANGED dom
  /\ UNCHANGED outsideBrowser

\* A partial fetch fails or answers with a status that is not ok: Promise.all
\* rejects and its catch reloads the page.
FetchFailed(n, name) ==
  /\ ~reloaded
  /\ inbox[n].fetches[name].state = "pending"
  /\ inbox' = [inbox EXCEPT ![n].fetches[name].state = "failed"]
  /\ reloaded' = TRUE
  /\ UNCHANGED dom
  /\ UNCHANGED outsideBrowser

BrowserNext ==
  \/ \E event \in PageEvents : OnMessage(event)
  \/ \E n \in 1..Len(inbox) : \E name \in PageSections :
       \E marker \in {"1", "(absent)"} : \E version \in 1..MaxMessages :
         FetchAnswered(n, name, marker, version)
  \/ \E n \in 1..Len(inbox) : \E name \in PageSections : FetchFailed(n, name)

BrowserSpec == BrowserInit /\ [][BrowserNext]_vars

Fetched(n) == { name \in PageSections : inbox[n].fetches[name].state # "none" }
Ended(n) == \A name \in Fetched(n) : inbox[n].fetches[name].state # "pending"

\* C25: every received event ends either with a full page reload or with
\* every affected section showing content at least as new as the event's
\* change, swapped in after a fetch that succeeded with the marker; an other
\* event, a failed fetch and a missing marker always end with a reload.
EveryEventSwappedOrReloaded ==
  \A n \in 1..Len(inbox) :
    Ended(n) =>
      \/ reloaded
      \/ /\ inbox[n].event.type = "section"
         /\ \A name \in Fetched(n) :
              /\ inbox[n].fetches[name].state = "swapped"
              /\ dom[name].shown >= n

RequestIssued == Len(sent') = Len(sent) + 1
ResponseReceived == Len(replies') = Len(replies) + 1

\* C26: at most one HTTP request of a call is in flight at any time, and a
\* retry is issued only when every earlier request has been answered, the last
\* answer was a 429 and its retry-after sleep has ended.
RetriesSequential ==
  [][ /\ Len(sent') - Len(replies') \in {0, 1}
      /\ RequestIssued /\ sent # <<>> =>
           /\ Len(replies) = Len(sent)
           /\ replies[Len(replies)].status = 429
           /\ sleepLeft = 0
    ]_vars

\* C26 witness: a second retry has been issued after two answered 429s.
ThirdRequestInFlight ==
  /\ Len(sent) = 3 /\ Len(replies) = 2 /\ pc = "inflight"
  /\ replies[2].retryAfter > 0

\* C27: every response received, whatever its status, writes the call budget
\* once, from that response and in the step that dispatches on it, and no
\* other step writes it.
BudgetWrittenPerResponse ==
  [][ /\ ResponseReceived =>
           rateLimit' = IF lastResponse'.limit.present
                          THEN [used |-> lastResponse'.limit.used, cap |-> lastResponse'.limit.cap]
                          ELSE rateLimit
      /\ rateLimit' # rateLimit => ResponseReceived
    ]_vars

\* C27 witness: sleeping after a second 429 whose call-limit header is the
\* call budget now in the shared state.
BudgetWrittenOn429 ==
  /\ pc = "sleeping"
  /\ lastResponse.status = 429
  /\ lastResponse.limit.present
  /\ rateLimit = [used |-> lastResponse.limit.used, cap |-> lastResponse.limit.cap]
  /\ Len(replies) = 2
  /\ replies[1].status = 429

\* The index holds the parsed form of content under key.
Indexed(index, key, content) ==
  \E t \in 1..Len(index) : index[t].key = key /\ index[t].value = JSONparse(content)

\* The read of watched event i settles in this step.
Resolved(i) ==
  /\ i \in 1..Len(watched)
  /\ watched[i].state = "reading"
  /\ watched'[i].state \in {"done", "warned"}

\* C28: an event for a .liquid or .json key is published only in the step that
\* handles a read of that key, and after that step the cache holds the content
\* read and, for a .json key, the index holds its parsed form.
PublishedAfterCacheUpdate ==
  [][ published' # published /\ extname(LastPublished.key) \in {".liquid", ".json"} =>
        \E i \in 1..Len(watched) :
          /\ Triggered(i)
          /\ watched[i].key = LastPublished.key
          /\ inMemoryTemplates'[watched[i].key] = watched[i].content
          /\ extname(watched[i].key) = ".json" =>
               Indexed(parsedJsonTemplates', watched[i].key, watched[i].content)
    ]_vars

\* C28 witness: the event of a changed templates/index.json is published and
\* the cache and the index hold what was read.
JsonPublishedAndCached ==
  /\ published = <<OtherEvent(IndexJson)>>
  /\ inMemoryTemplates[IndexJson] = MainOnly
  /\ Indexed(parsedJsonTemplates, IndexJson, MainOnly)
  /\ \E i \in 1..Len(watched) : watched[i] = Watched("update", IndexJson, MainOnly, "done")

Seen(map, cache) == IF map.shared THEN cache ELSE map.value

Requests == [h \in Handlers |-> pages[h]] @@ [s \in {"section"} |-> section]
RequestsAfter == [h \in Handlers |-> pages'[h]] @@ [s \in {"section"} |-> section']

\* The watcher handles an add/change read or an unlink in this step.
WatcherStep ==
  \/ \E i \in 1..Len(watched) : Resolved(i)
  \/ HandledNow /\ Newest.op = "unlink"

\* C30: the cache and the index change only in a watcher step; a step of a
\* page render, a section re-render or a subscription leaves both unchanged;
\* and the map of a render in flight has, for every key, a whole content or
\* none, and reads the same from one step to the next.
CacheOwnedByWatcher ==
  [][ /\ inMemoryTemplates' # inMemoryTemplates \/ parsedJsonTemplates' # parsedJsonTemplates =>
           WatcherStep
      /\ pages' # pages \/ section' # section \/ listeners' # listeners =>
           UNCHANGED <<inMemoryTemplates, parsedJsonTemplates>>
      /\ \A r \in DOMAIN Requests :
           Requests[r].state = "rendering" /\ RequestsAfter[r].state = "rendering" =>
             /\ Seen(RequestsAfter[r].context.replaceTemplates, inMemoryTemplates')
                  = Seen(Requests[r].context.replaceTemplates, inMemoryTemplates)
             /\ \A k \in WatchedKeys :
                  Seen(Requests[r].context.replaceTemplates, inMemoryTemplates)[k]
                    \in PreviewContentsOf(k) \cup {NoContent}
    ]_vars

\* C30 witness: a page render in flight whose map is the empty cache it was
\* handed, after a file read has filled the cache.
SnapshotOlderThanCache ==
  \E h \in Handlers :
    /\ pages[h].state = "rendering"
    /\ Seen(pages[h].context.replaceTemplates, inMemoryTemplates) = NoTemplates
    /\ inMemoryTemplates[HeaderLiquid] = HeaderMarkup

SectionRenderStarted == section.state = "idle" /\ section'.state = "rendering"
SectionAnsweredAtOnce == section.state = "idle" /\ section'.state = "answered"

\* The keys a replacement map gives a content for.
ReplacedKeys(map) == { k \in WatchedKeys : map.value[k] # NoContent }

\* C31: a section re-render calls render with the section id of the query and
\* a map of one entry, the non-empty cached content of the key of the query;
\* with a parameter missing or no non-empty content cached for the key the
\* request is answered without a render call and without the marker.
SectionRenderOneEntry ==
  [][ /\ SectionRenderStarted =>
           /\ section'.query.sectionId # Missing /\ section'.query.sectionKey # Missing
           /\ section'.context.sectionId = section'.query.sectionId[1]
           /\ ReplacedKeys(section'.context.replaceTemplates) = {section'.query.sectionKey[1]}
           /\ section'.context.replaceTemplates.value[section'.query.sectionKey[1]]
                = inMemoryTemplates[section'.query.sectionKey[1]]
           /\ inMemoryTemplates[section'.query.sectionKey[1]] \notin {NoContent, EmptyMarkup}
      /\ section.state = "idle" /\ section' # section =>
           LET q == section'.query
           IN IF q.sectionId = Missing \/ q.sectionKey = Missing
                THEN SectionAnsweredAtOnce /\ section'.response.marker = Missing
                ELSE IF inMemoryTemplates[q.sectionKey[1]] \in {NoContent, EmptyMarkup}
                  THEN SectionAnsweredAtOnce /\ section'.response.marker = Missing
                  ELSE SectionRenderStarted
    ]_vars

\* C31 witness: a section re-render answered with the marker, and one answered
\* at once because the cached content of its key is empty.
SectionRenderedWithMarker ==
  /\ section.state = "answered"
  /\ section.response.marker = <<"1">>
  /\ section.query.sectionKey = <<HeaderLiquid>>

SectionSkippedForEmptyContent ==
  /\ section.state = "answered"
  /\ section.query.sectionId # Missing /\ section.query.sectionKey # Missing
  /\ inMemoryTemplates[HeaderLiquid] = EmptyMarkup
  /\ section.response = EmptyAnswer

\* The watcher events handled for key, by position.
EventsFor(key) == { i \in 1..Len(watched) : watched[i].key = key }
LatestOf(positions) == CHOOSE i \in positions : \A j \in positions : j <= i

\* C32: when every add/change of a file has had its read resolve and its
\* content applied, the cache holds for that key the content of the read that
\* was started last.
LastStartedReadWins ==
  \A key \in WatchedKeys :
    /\ EventsFor(key) # {}
    /\ \A i \in EventsFor(key) : IsUpdate(i) /\ watched[i].state = "done"
    => inMemoryTemplates[key] = watched[LatestOf(EventsFor(key))].content

\* C33: when the last watcher event handled for a key is an unlink, the key
\* is absent from the cache and from the index.
UnlinkedStaysAbsent ==
  \A key \in WatchedKeys :
    /\ EventsFor(key) # {}
    /\ watched[LatestOf(EventsFor(key))].op = "unlink"
    => /\ inMemoryTemplates[key] = NoContent
       /\ \A t \in 1..Len(parsedJsonTemplates) : parsedJsonTemplates[t].key # key

\* C34: every key of the parsed index is a .json key present in the cache,
\* and its value is the parse of the content the cache holds for it.
IndexMatchesCache ==
  \A t \in 1..Len(parsedJsonTemplates) :
    LET key == parsedJsonTemplates[t].key
    IN /\ extname(key) = ".json"
       /\ inMemoryTemplates[key] # NoContent
       /\ Parses(inMemoryTemplates[key])
       /\ parsedJsonTemplates[t].value = JSONparse(inMemoryTemplates[key])

\* C35: the handlers registered on the hot-reload bus are as many as the
\* clients whose stream is open.
HandlersMatchConnected ==
  Len(listeners) = Cardinality({ c \in Clients : streams[c].state = "open" })

-----------------------------------------------------------------------------
(* The browser script: the push channel and its reconnects *)

ChannelInit == RestInit /\ SyncIdle /\ HotIdle /\ PreviewIdle /\ BrowserIdle /\ ChannelIdle /\ LogsIdle /\ ThemesIdle

OpenSources == { i \in 1..Len(sources) : sources[i] = "open" }

\* evtSource.onopen: the connection of an EventSource is established.
ConnectionOpens(i) ==
  /\ sources[i] = "connecting"
  /\ sources' = [sources EXCEPT ![i] = "open"]
  /\ UNCHANGED <<timers, handled>>
  /\ UNCHANGED outsideChannel

\* evtSource.onerror: the connection failed; the EventSource is closed for
\* good after a fatal failure and reconnects by itself otherwise, and the
\* script schedules hotReloadScript either way.
ChannelError(i, fatal) ==
  /\ sources[i] \in {"connecting", "open"}
  /\ Len(sources) + Len(timers) < MaxSources
  /\ sources' = [sources EXCEPT ![i] = IF fatal THEN "closed" ELSE "connecting"]
  /\ timers' = Append(timers, ReconnectDelay)
  /\ UNCHANGED handled
  /\ UNCHANGED outsideChannel

\* Half the reconnect delay passes with no timer due.
TimePasses ==
  /\ timers # <<>>
  /\ \A t \in 1..Len(timers) : timers[t] > 0
  /\ timers' = [t \in 1..Len(timers) |-> timers[t] - ReconnectDelay \div 2]
  /\ UNCHANGED <<sources, handled>>
  /\ UNCHANGED outsideChannel

\* A due timer runs hotReloadScript, which creates a new EventSource.
TimerFires ==
  /\ timers # <<>>
  /\ Head(timers) = 0
  /\ timers' = Tail(timers)
  /\ sources' = Append(sources, "connecting")
  /\ UNCHANGED handled
  /\ UNCHANGED outsideChannel

\* The server pushes one event: every open EventSource runs its onmessage.
MessageArrives ==
  /\ OpenSources # {}
  /\ handled' = Cardinality(OpenSources)
  /\ UNCHANGED <<sources, timers>>
  /\ UNCHANGED outsideChannel

ChannelNext ==
  \/ \E i \in 1..Len(sources) : ConnectionOpens(i)
  \/ \E i \in 1..Len(sources) : \E fatal \in BOOLEAN : ChannelError(i, fatal)
  \/ TimePasses
  \/ TimerFires
  \/ MessageArrives

ChannelSpec == ChannelInit /\ [][ChannelNext]_vars

\* C36: a page has at most one open push channel, and an event pushed to it
\* is handled at most once.
AtMostOneOpenChannel ==
  /\ Cardinality(OpenSources) <= 1
  /\ handled <= 1

-----------------------------------------------------------------------------
(* pollAppLogs: the polling chain of the app logs *)

\* The chain starts with one invocation, with or without a cursor.
LogsInit ==
  /\ RestInit /\ SyncIdle /\ HotIdle /\ PreviewIdle /\ BrowserIdle /\ ChannelIdle
  /\ ThemesIdle
  /\ invocations \in { <<Invocation(cursor)>> : cursor \in Cursors }
  /\ scheduled = <<>>

\* What fetchAppLogs resolves with: ok, status, the cursor of the body and
\* whether the payload of a log of the body is valid JSON.
LogResponses ==
  [ok : {TRUE}, status : {200}, cursor : Cursors, logs : {"none", "valid", "malformed"}]
    \cup [ok : {FALSE}, status : {401, 429, 500}, cursor : {Missing}, logs : {"none"}]

\* setTimeout(() => pollAppLogs({... cursor ...}), interval) set by invocation i.
Timer(i, interval, cursor) == [by |-> i, after |-> interval, cursor |-> cursor, fired |-> FALSE]

\* The retry after a 429 keeping the cursor of the throttled invocation.
ThrottledRetryKeepingCursor(i) == Timer(i, "POLLING_THROTTLE_RETRY_INTERVAL_MS", invocations[i].cursor)

\* The retry after a 429: the throttle interval, the cursor reset.
ThrottledRetry(i) == Timer(i, "POLLING_THROTTLE_RETRY_INTERVAL_MS", Missing)

\* The retry of the catch block: the error interval, the cursor reset.
ErrorRetry(i) == Timer(i, "POLLING_ERROR_RETRY_INTERVAL_MS", Missing)

\* The next poll after a processed response: the polling interval, the cursor
\* of the response.
NextPoll(i, response) == Timer(i, "POLLING_INTERVAL_MS", response.cursor)

Ends(i, status, how) == [invocations EXCEPT ![i].at = "returned", ![i].status = status, ![i].ended = how]

\* fetchAppLogs resolves and the invocation runs on to its next await or its end.
LogsFetched(i, response) ==
  /\ invocations[i].at = "fetching"
  /\ IF ~response.ok
       THEN IF response.status = 401
              THEN /\ invocations' = [invocations EXCEPT ![i].at = "resubscribing", ![i].status = 401]
                   /\ UNCHANGED scheduled
            ELSE IF response.status = 429
              THEN /\ scheduled' = Append(scheduled, ThrottledRetry(i))
                   /\ invocations' = Ends(i, response.status, "throttled")
            ELSE /\ scheduled' = Append(scheduled, ErrorRetry(i))
                 /\ invocations' = Ends(i, response.status, "caught")
       ELSE IF response.logs = "malformed"
         THEN /\ scheduled' = Append(scheduled, ErrorRetry(i))
              /\ invocations' = Ends(i, response.status, "caught")
         ELSE /\ scheduled' = Append(scheduled, NextPoll(i, response))
              /\ invocations' = [Ends(i, response.status, "polled")
                                   EXCEPT ![i].cursorFromResponse = response.cursor]
  /\ UNCHANGED outsideLogs

\* fetchAppLogs rejects: the catch block.
LogsFetchRejected(i) ==
  /\ invocations[i].at = "fetching"
  /\ scheduled' = Append(scheduled, ErrorRetry(i))
  /\ invocations' = Ends(i, 0, "caught")
  /\ UNCHANGED outsideLogs

\* await resubscribeCallback() resolves: the invocation returns.
Resubscribed(i) ==
  /\ invocations[i].at = "resubscribing"
  /\ invocations' = Ends(i, 401, "resubscribed")
  /\ UNCHANGED scheduled
  /\ UNCHANGED outsideLogs

\* await resubscribeCallback() rejects: the catch block.
ResubscribeRejected(i) ==
  /\ invocations[i].at = "resubscribing"
  /\ scheduled' = Append(scheduled, ErrorRetry(i))
  /\ invocations' = Ends(i, 401, "caught")
  /\ UNCHANGED outsideLogs

\* A timer fires and calls pollAppLogs with the cursor it was set with.
PollTimerFires(t) ==
  /\ ~scheduled[t].fired
  /\ Len(invocations) < MaxPolls
  /\ scheduled' = [scheduled EXCEPT ![t].fired = TRUE]
  /\ invocations' = Append(invocations, Invocation(scheduled[t].cursor))
  /\ UNCHANGED outsideLogs

LogsNext ==
  \/ \E i \in 1..Len(invocations) : \E response \in LogResponses : LogsFetched(i, response)
  \/ \E i \in 1..Len(invocations) : LogsFetchRejected(i)
  \/ \E i \in 1..Len(invocations) : Resubscribed(i)
  \/ \E i \in 1..Len(invocations) : ResubscribeRejected(i)
  \/ \E t \in 1..Len(scheduled) : PollTimerFires(t)

LogsSpec == LogsInit /\ [][LogsNext]_vars

TimersOf(i) == { t \in 1..Len(scheduled) : scheduled[t].by = i }
PendingTimers == { t \in 1..Len(scheduled) : ~scheduled[t].fired }
RunningPolls == { i \in 1..Len(invocations) : invocations[i].at # "returned" }
HasReturned(i) == invocations[i].at = "returned"

\* Invocation i has set exactly one timer, with this interval and cursor.
SetExactly(i, interval, cursor) ==
  /\ Cardinality(TimersOf(i)) = 1
  /\ \A t \in TimersOf(i) : scheduled[t].after = interval /\ scheduled[t].cursor = cursor

\* What holds of every invocation whatever its response.
PollsOneAtATime ==
  /\ \A i \in 1..Len(invocations) :
       /\ Cardinality(TimersOf(i)) <= 1
       /\ HasReturned(i) /\ invocations[i].ended = "polled" =>
            /\ invocations[i].status = 200
            /\ SetExactly(i, "POLLING_INTERVAL_MS", invocations[i].cursorFromResponse)
       /\ HasReturned(i) /\ invocations[i].status = 429 =>
            SetExactly(i, "POLLING_THROTTLE_RETRY_INTERVAL_MS", Missing)
       /\ HasReturned(i) /\ invocations[i].ended = "caught" /\ invocations[i].status # 401 =>
            SetExactly(i, "POLLING_ERROR_RETRY_INTERVAL_MS", Missing)
  /\ Cardinality(RunningPolls) + Cardinality(PendingTimers) <= 1

\* C37 as amended: one next poll after a processed response, a 429, any other
\* bad status or a thrown error; after a 401 none when resubscribeCallback
\* resolves and one, after the error interval with the cursor reset, when it
\* rejects; the chain has one poll pending or running at most and stops only
\* on a 401 whose resubscribeCallback resolved.
PollChainStopsOnResubscribe ==
  /\ PollsOneAtATime
  /\ \A i \in 1..Len(invocations) :
       /\ HasReturned(i) /\ invocations[i].ended = "resubscribed" =>
            invocations[i].status = 401 /\ TimersOf(i) = {}
       /\ HasReturned(i) /\ invocations[i].status = 401 /\ invocations[i].ended = "caught" =>
            SetExactly(i, "POLLING_ERROR_RETRY_INTERVAL_MS", Missing)
  /\ RunningPolls = {} /\ PendingTimers = {} =>
       invocations[Len(invocations)].ended = "resubscribed"

\* C37 witness: a chain that was throttled, polled again and stopped on a 401.
ChainStoppedOn401 ==
  /\ Len(invocations) = 3
  /\ invocations[1].status = 429
  /\ invocations[2].ended = "polled" /\ invocations[2].cursorFromResponse # Missing
  /\ invocations[3].cursor = invocations[2].cursorFromResponse
  /\ invocations[3].ended = "resubscribed"
  /\ PendingTimers = {}

\* C37: one next poll after a processed response, a 429, any other bad status
\* or a thrown error, and none after a 401; the chain has one poll pending or
\* running at most and stops only on a 401.
PollChainStopsOn401 ==
  /\ PollsOneAtATime
  /\ \A i \in 1..Len(invocations) :
       HasReturned(i) /\ invocations[i].status = 401 => TimersOf(i) = {}
  /\ RunningPolls = {} /\ PendingTimers = {} =>
       invocations[Len(invocations)].status = 401

-----------------------------------------------------------------------------
(* createTheme, fetchChecksums and the pull that uses it *)

ThemesInit ==
  RestInit /\ SyncIdle /\ HotIdle /\ PreviewIdle /\ BrowserIdle /\ ChannelIdle /\ LogsIdle /\ ThemesIdle

ThemeIds == {123, 456}
ThemeRoles == {"unpublished", "development"}

\* The statuses request() can end with: a 429 is retried inside it.
FinalStatuses == {200, 201, 207, 401, 403, 404, 422, 500}

\* Whether request() returns the response with this status to its caller.
requestReturns(status) == Dispatch(status) \in {"success", "notFound"}

\* The theme of the body of the answer to POST /themes: a created theme for a
\* success, no theme member otherwise.
CreatedThemes(status, role) ==
  IF Dispatch(status) = "success" THEN { <<[id |-> id, role |-> role]>> : id \in ThemeIds }
  ELSE {Missing}

\* The assets member of the body of the answer to GET /themes/{id}/assets: the
\* checksums of the theme for a success, no such member otherwise.
ChecksumLists(status) ==
  IF Dispatch(status) = "success"
    THEN { <<<<>>>>, <<<<"layout/theme.liquid">>>>, <<<<"layout/theme.liquid", "templates/404.json">>>> }
    ELSE {Missing}

\* The upload check letting every returned response pass.
UploadFailedNever(status) == FALSE

\* bulkUploadThemeAssets: response.status !== 207 throws.
UploadFailed(status) == status # 207

\* buildTheme({...response.json.theme, createdAtRuntime: true})
buildThemeCreated(theme) == <<[id |-> theme.id, role |-> theme.role, createdAtRuntime |-> TRUE]>>

\* fetchChecksums: assets?.length > 0 ? assets.map(buildChecksum) : []
checksumsOf(assets) == IF assets # Missing /\ Len(assets[1]) > 0 THEN assets[1] ELSE <<>>

\* createTheme(params, session) is called: the POST is sent.
CreateThemeStart(role) ==
  /\ job.at = "idle"
  /\ job' = [NoJob EXCEPT !.fn = "createTheme", !.at = "POST /themes",
                          !.theme = <<[role |-> role]>>, !.requests = <<"POST /themes">>]
  /\ UNCHANGED outsideThemes

\* request() ends for the POST: a raise ends createTheme; a response without
\* a theme makes response.json.theme.id throw; otherwise the bulk upload of
\* the minimum assets is sent.
CreateThemePosted(status, theme) ==
  /\ job.at = "POST /themes"
  /\ LET answered == [job EXCEPT !.statuses = Append(job.statuses, status), !.created = theme]
     IN IF ~requestReturns(status)
          THEN job' = [answered EXCEPT !.at = "done", !.ended = "raised"]
        ELSE IF theme = Missing
          THEN job' = [answered EXCEPT !.at = "done", !.ended = "raised"]
        ELSE job' = [answered EXCEPT !.at = "PUT /themes/{id}/assets/bulk",
                                     !.requests = Append(job.requests, "PUT /themes/{id}/assets/bulk")]
  /\ UNCHANGED outsideThemes

\* request() ends for the bulk upload: createTheme raises unless the status
\* is 207 and returns the built theme otherwise.
CreateThemeUploaded(status) ==
  /\ job.at = "PUT /themes/{id}/assets/bulk"
  /\ LET answered == [job EXCEPT !.statuses = Append(job.statuses, status), !.at = "done"]
     IN IF ~requestReturns(status) \/ UploadFailed(status)
          THEN job' = [answered EXCEPT !.ended = "raised"]
          ELSE job' = [answered EXCEPT !.ended = "returned",
                                       !.value = buildThemeCreated(job.created[1])]
  /\ UNCHANGED outsideThemes

\* executePull reaches fetchChecksums(theme.id, session): the GET is sent.
FetchChecksumsStart ==
  /\ job.at = "idle"
  /\ job' = [NoJob EXCEPT !.fn = "fetchChecksums", !.at = "GET /themes/{id}/assets",
                          !.requests = <<"GET /themes/{id}/assets">>]
  /\ UNCHANGED outsideThemes

\* request() ends for the GET: fetchChecksums raises with it or returns the
\* checksums of the body, the empty list when the body has no assets.
FetchChecksumsAnswered(status, assets) ==
  /\ job.at = "GET /themes/{id}/assets"
  /\ LET answered == [job EXCEPT !.statuses = Append(job.statuses, status), !.assets = assets]
     IN IF ~requestReturns(status)
          THEN job' = [answered EXCEPT !.at = "done", !.ended = "raised"]
          ELSE job' = [answered EXCEPT !.at = "fetched", !.ended = "returned",
                                       !.value = <<checksumsOf(assets)>>]
  /\ UNCHANGED outsideThemes

\* executePull goes on to downloadTheme with the checksums fetched.
PullDownloads ==
  /\ job.at = "fetched"
  /\ job' = [job EXCEPT !.at = "done", !.manifest = job.value]
  /\ UNCHANGED outsideThemes

\* The caller has its result.
ThemeCallEnds ==
  /\ job.at = "done"
  /\ job' = NoJob
  /\ UNCHANGED outsideThemes

ThemesNext ==
  \/ \E role \in ThemeRoles : CreateThemeStart(role)
  \/ /\ job.at = "POST /themes"
     /\ \E status \in FinalStatuses : \E theme \in CreatedThemes(status, job.theme[1].role) :
          CreateThemePosted(status, theme)
  \/ \E status \in FinalStatuses : CreateThemeUploaded(status)
  \/ FetchChecksumsStart
  \/ \E status \in FinalStatuses : \E assets \in ChecksumLists(status) :
       FetchChecksumsAnswered(status, assets)
  \/ PullDownloads
  \/ ThemeCallEnds

ThemesSpec == ThemesInit /\ [][ThemesNext]_vars

CreateThemeDone == job.fn = "createTheme" /\ job.at = "done"

\* C38: createTheme sends the POST first and the bulk upload second and
\* nothing else; it returns a theme only after a 207 to the upload; when the
\* upload raises it raises, returns no theme and has sent no request that
\* would remove the theme the POST created.
CreateThemeUploadsThenReturns ==
  /\ job.fn = "createTheme" =>
       job.requests \in { <<"POST /themes">>, <<"POST /themes", "PUT /themes/{id}/assets/bulk">> }
  /\ CreateThemeDone /\ job.ended = "returned" =>
       /\ Len(job.statuses) = 2
       /\ job.statuses[2] = 207
       /\ job.value = buildThemeCreated(job.created[1])
  /\ CreateThemeDone /\ Len(job.statuses) = 2 /\ job.statuses[2] # 207 =>
       /\ job.ended = "raised"
       /\ job.value = Missing
       /\ job.created # Missing

\* C38 witness: the POST created a theme, the upload was answered 500, and
\* createTheme raised with the theme left on the store.
CreateThemeRaisedAfterUpload ==
  /\ CreateThemeDone
  /\ job.statuses = <<200, 500>>
  /\ job.created # Missing
  /\ job.ended = "raised"

\* C39: fetchChecksums returns the empty list, and pull downloads against an
\* empty manifest, only when the server answered the checksum fetch with a
\* success whose body lists no assets.
EmptyChecksumsOnlyFromEmptyTheme ==
  job.fn = "fetchChecksums" /\ (job.value = <<<<>>>> \/ job.manifest = <<<<>>>>) =>
    /\ Dispatch(job.statuses[1]) = "success"
    /\ job.assets = <<<<>>>>

=============================================================================
